---- MODULE Spec2Model ----
(***************************************************************************)
(* Verification model of the local-mcp-server tool execution gateway:      *)
(* path sanitization (sanitization.py), admission control                  *)
(* (executor_limits.py), the executor (executor.py) and the call_tool      *)
(* handler (server.py).                                                    *)
(*                                                                         *)
(* Strings are sequences of one-character strings; a filesystem path, once *)
(* parsed, is a sequence of such strings (pathlib's .parts), an absolute   *)
(* one starting with the anchor "/".                                       *)
(***************************************************************************)
EXTENDS Integers, Sequences, FiniteSets, TLC

VARIABLES
    fs,          \* symlinks of the filesystem: link site -> target (NoLink if none)
    p_in,        \* sanitize_path: the arguments of the call
    p_out,       \* sanitize_path: the returned tuple, or NotCalled
    now,         \* time.time(), in whole seconds
    ticks,       \* how many times the clock has advanced
    rl_enabled,  \* RateLimiter.enabled
    executions,  \* RateLimiter.executions: tool name -> deque of timestamps
    rl_burst,    \* per tool, the checks counted since its queue was last cleared
    rl_flag,     \* per tool, whether its queue was at the limit when it was last cleared
    rl_last,     \* the last check_rate_limit call and what it returned
    sem,         \* ExecutionSemaphore: asyncio.Semaphore value and waiters, active_count
    calls,       \* per task: the call_tool invocation it is running, if any
    last,        \* the invocation that returned last: its inputs, result and reply
    fn_in,       \* a function called on its own: which one, and its arguments
    fn_out,      \* what that call returned, or NotApplied
    tools_map,   \* Config._tools_config: tool name -> the ScriptConfig object stored (0 if none)
    objects,     \* the ScriptConfig objects that exist: object -> its fields
    reader       \* what a caller of Config's getters holds, and the fields it read

pathVars == <<fs, p_in, p_out>>
rateVars == <<now, ticks, rl_enabled, executions, rl_burst, rl_flag, rl_last>>
execVars == <<sem, calls, last>>
fnVars == <<fn_in, fn_out>>
regVars == <<tools_map, objects, reader>>

----------------------------------------------------------------------------
(* Bounds *)

\* longest relative path (in segments) given to sanitize_path
MaxSegs == 2

\* RateLimiter.max_per_minute (GlobalConfig.max_executions_per_minute) in the model
MaxPerMinute == 2

\* how many times the clock advances in a run
MaxTicks == 2

\* ExecutionSemaphore.max_concurrent (GlobalConfig.max_concurrent_executions) in the model
MaxConcurrent == 1

\* how many requests the executor has in flight at once
MaxInFlight == 2

----------------------------------------------------------------------------
(* Strings and pathlib *)

Slash == <<"/">>
Dot == <<".">>
DotDot == <<".", ".">>

IsPrefix(a, b) == Len(a) <= Len(b) /\ SubSeq(b, 1, Len(a)) = a

RECURSIVE SplitRec(_, _)
\* str.split('/') as PurePath's parser uses it
SplitRec(s, cur) ==
    IF s = <<>> THEN <<cur>>
    ELSE IF Head(s) = "/" THEN <<cur>> \o SplitRec(Tail(s), <<>>)
    ELSE SplitRec(Tail(s), Append(cur, Head(s)))

KeepSegment(x) == x # <<>> /\ x # Dot

\* Path(path).parts: empty and '.' segments are dropped, '..' is kept
PathParts(s) ==
    LET segs == SelectSeq(SplitRec(s, <<>>), KeepSegment)
    IN IF s # <<>> /\ Head(s) = "/" THEN <<Slash>> \o segs ELSE segs

\* Path.is_absolute()
is_absolute(parts) == parts # <<>> /\ Head(parts) = Slash

Parent(parts) == IF Len(parts) <= 1 THEN parts ELSE SubSeq(parts, 1, Len(parts) - 1)

NoLink == <<>>

RECURSIVE ResolveFrom(_, _, _)
\* Path.resolve() (os.path.realpath, non-strict): walks the components from
\* the root, replacing a symlink by its target and '..' by the parent
ResolveFrom(cur, rest, links) ==
    IF rest = <<>> THEN cur
    ELSE LET c == Head(rest)
             nxt == IF c = DotDot THEN Parent(cur) ELSE Append(cur, c)
         IN IF nxt \in DOMAIN links /\ links[nxt] # NoLink
            THEN ResolveFrom(links[nxt], Tail(rest), links)
            ELSE ResolveFrom(nxt, Tail(rest), links)

Resolve(parts, links) == ResolveFrom(<<Slash>>, Tail(parts), links)

\* PurePath.relative_to(base) succeeds iff base's parts are a prefix
relative_to_ok(parts, base) == IsPrefix(base, parts)

----------------------------------------------------------------------------
(* InputSanitizer.sanitize_path *)

MAX_PATH_LENGTH == 4096

NoPath == <<>>

PathResult(ok, resolved, kind, names) ==
    [ok |-> ok, resolved |-> resolved, error |-> [kind |-> kind, bases |-> names]]

\* the candidate sanitize_path tests against one base
resolved_test(parts, base, follow_symlinks, links) ==
    IF is_absolute(parts)
    THEN IF follow_symlinks THEN Resolve(parts, links) ELSE parts
    ELSE IF follow_symlinks THEN Resolve(base \o parts, links) ELSE base \o parts

base_matches_nocheck(parts, base, follow_symlinks, links) == TRUE

\* the body of the loop over allowed_bases: does this base contain the path
base_matches(parts, base, follow_symlinks, links) ==
    relative_to_ok(resolved_test(parts, base, follow_symlinks, links), Resolve(base, links))

first_match_default(parts, bases, i, follow_symlinks, links) == IF bases = <<>> THEN 0 ELSE 1

RECURSIVE first_match(_, _, _, _, _)
\* index of the first base the loop breaks on, 0 if it runs to the end
first_match(parts, bases, i, follow_symlinks, links) ==
    IF i > Len(bases) THEN 0
    ELSE IF base_matches(parts, bases[i], follow_symlinks, links) THEN i
    ELSE first_match(parts, bases, i + 1, follow_symlinks, links)

has_parent_ref_leading_only(parts) == parts # <<>> /\ Head(parts) = DotDot

\* '..' in path_obj.parts
has_parent_ref(parts) == \E i \in 1..Len(parts) : parts[i] = DotDot

sanitize_path(path, allowed_bases, allow_absolute, follow_symlinks, links) ==
    IF path = <<>> THEN PathResult(FALSE, NoPath, "empty", <<>>)
    ELSE IF Len(path) > MAX_PATH_LENGTH THEN PathResult(FALSE, NoPath, "too_long", <<>>)
    ELSE LET parts == PathParts(path)
         IN IF is_absolute(parts) /\ ~allow_absolute
            THEN PathResult(FALSE, NoPath, "absolute_not_allowed", <<>>)
            ELSE IF has_parent_ref(parts)
            THEN PathResult(FALSE, NoPath, "parent_ref", <<>>)
            ELSE LET m == first_match(parts, allowed_bases, 1, follow_symlinks, links)
                 IN IF m = 0
                    THEN PathResult(FALSE, NoPath, "not_within", allowed_bases)
                    ELSE PathResult(TRUE,
                                    resolved_test(parts, allowed_bases[m], follow_symlinks, links),
                                    "", <<>>)

----------------------------------------------------------------------------
(* The filesystem and the inputs sanitize_path is checked on *)

Root(n) == <<Slash, <<n>>>>
BaseW == Root("w")
BaseV == Root("v")
Outside == Root("o")

SiteW == Append(BaseW, <<"l">>)
SiteV == Append(BaseV, <<"l">>)

\* symlinks that may exist below the two bases; targets are real directories
LinkChoices ==
    { [s \in {SiteW, SiteV} |-> IF s = SiteW THEN tw ELSE tv] :
        tw \in {NoLink, Outside, Append(BaseW, <<"a">>), BaseV},
        tv \in {NoLink, Outside} }

NoLinks == [s \in {SiteW, SiteV} |-> NoLink]

Segments == {DotDot, Dot, <<"a">>, <<"l">>, <<".", ".", "a">>}

RECURSIVE JoinSegs(_)
JoinSegs(segs) ==
    IF segs = <<>> THEN <<>>
    ELSE IF Len(segs) = 1 THEN Head(segs)
    ELSE Head(segs) \o <<"/">> \o JoinSegs(Tail(segs))

SegSeqs == UNION { [1..n -> Segments] : n \in 1..MaxSegs }

RelativeInputs == { JoinSegs(s) : s \in SegSeqs }

AbsoluteInputs ==
    { <<"/", r>> : r \in {"w", "v", "o"} } \cup
    { <<"/", r, "/">> \o JoinSegs(s) : r \in {"w", "v", "o"}, s \in SegSeqs }

PathInputs == {<<>>} \cup RelativeInputs \cup AbsoluteInputs

BaseLists == { <<>>, <<BaseW>>, <<BaseV>>, <<BaseW, BaseV>>, <<BaseV, BaseW>> }

NotCalled == [ok |-> FALSE, resolved |-> NoPath, error |-> [kind |-> "not_called", bases |-> <<>>]]

\* no function has been called on its own
NoCall == [fn |-> ""]

NotApplied == [done |-> FALSE]

FnIdle == fn_in = NoCall /\ fn_out = NotApplied

\* the names under which discovery registers the scripts of the model
RegistryNames == {"t_a", "t_b"}

\* no entry under that name in Config._tools_config
NoConfig == [exists |-> FALSE]

\* the most ScriptConfig objects created in a run
MaxObjects == 3

NothingHeld ==
    [got |-> "nothing", refs |-> [n \in RegistryNames |-> 0],
     seen |-> [n \in RegistryNames |-> NoConfig]]

RegIdle ==
    /\ tools_map = [n \in RegistryNames |-> 0]
    /\ objects = [o \in 1..MaxObjects |-> NoConfig]
    /\ reader = NothingHeld

NoInput == [path |-> <<>>, allowed_bases |-> <<>>, allow_absolute |-> FALSE, follow_symlinks |-> FALSE]

PathIdle == fs = NoLinks /\ p_in = NoInput /\ p_out = NotCalled

InitPath ==
    /\ fs \in LinkChoices
    /\ p_in \in [path : PathInputs, allowed_bases : BaseLists,
                 allow_absolute : BOOLEAN, follow_symlinks : BOOLEAN]
    /\ p_out = NotCalled

SanitizePath ==
    /\ p_out = NotCalled
    /\ p_out' = sanitize_path(p_in.path, p_in.allowed_bases, p_in.allow_absolute,
                              p_in.follow_symlinks, fs)
    /\ UNCHANGED <<fs, p_in>>
    /\ UNCHANGED <<rateVars, execVars, fnVars, regVars>>

NextPath == SanitizePath

----------------------------------------------------------------------------
(* Argument maps and validate_arguments_security *)

UpperCase == <<"A", "B", "C", "D", "E", "F", "G", "H", "I", "J", "K", "L", "M",
               "N", "O", "P", "Q", "R", "S", "T", "U", "V", "W", "X", "Y", "Z">>
LowerCase == <<"a", "b", "c", "d", "e", "f", "g", "h", "i", "j", "k", "l", "m",
               "n", "o", "p", "q", "r", "s", "t", "u", "v", "w", "x", "y", "z">>
Digits == {"0", "1", "2", "3", "4", "5", "6", "7", "8", "9"}

\* str.lower()
LowerChar(ch) ==
    IF \E i \in 1..Len(UpperCase) : UpperCase[i] = ch
    THEN LowerCase[CHOOSE i \in 1..Len(UpperCase) : UpperCase[i] = ch]
    ELSE ch

Lower(s) == [i \in 1..Len(s) |-> LowerChar(s[i])]

\* sub in s
Contains(s, sub) ==
    \E i \in 0..(Len(s) - Len(sub)) : SubSeq(s, i + 1, i + Len(sub)) = sub

\* argument values carry their JSON type
BoolV(b) == [t |-> "bool", b |-> b, s |-> <<>>, n |-> 0]
StrV(s) == [t |-> "str", b |-> FALSE, s |-> s, n |-> 0]
IntV(n) == [t |-> "int", b |-> FALSE, s |-> <<>>, n |-> n]
NoneV == [t |-> "none", b |-> FALSE, s |-> <<>>, n |-> 0]

\* Python truthiness, as `if not confirm` tests it
Truthy(v) ==
    CASE v.t = "bool" -> v.b
      [] v.t = "str" -> v.s # <<>>
      [] v.t = "int" -> v.n # 0
      [] OTHER -> FALSE

\* an argument map is the sequence of its (key, value) items, in dict order
HasKey(m, k) == \E i \in 1..Len(m) : m[i].k = k

\* dict.get(k, default)
Get(m, k, default) ==
    IF HasKey(m, k) THEN m[CHOOSE i \in 1..Len(m) : m[i].k = k].v ELSE default

K_confirm == <<"c", "o", "n", "f", "i", "r", "m">>
K_function == <<"f", "u", "n", "c", "t", "i", "o", "n">>
K_command == <<"c", "o", "m", "m", "a", "n", "d">>

ReservedKeys == {K_confirm, K_function, K_command}

MAX_IDENTIFIER_LENGTH == 64
MAX_STRING_LENGTH == 1000000

\* IDENTIFIER_PATTERN = ^[a-zA-Z0-9_-]+$
IdentChar(ch) ==
    \/ \E i \in 1..Len(LowerCase) : LowerCase[i] = ch \/ UpperCase[i] = ch
    \/ ch \in Digits \cup {"_", "-"}

\* IDENTIFIER_PATTERN.match(name): in Python's re, '$' matches at the end of
\* the string and also just before a newline that ends the string
identifier_pattern_match(name) ==
    LET last_char == IF Len(name) >= 2 /\ name[Len(name)] = "\n"
                     THEN Len(name) - 1
                     ELSE Len(name)
    IN last_char >= 1 /\ \A i \in 1..last_char : IdentChar(name[i])

\* InputSanitizer.sanitize_identifier: "" when valid, else the error
sanitize_identifier(name) ==
    IF name = <<>> THEN "empty"
    ELSE IF Len(name) > MAX_IDENTIFIER_LENGTH THEN "too_long"
    ELSE IF ~identifier_pattern_match(name) THEN "invalid_format"
    ELSE ""

InjectionPhrases ==
    { <<"i", "g", "n", "o", "r", "e">>,
      <<"d", "i", "s", "r", "e", "g", "a", "r", "d">>,
      <<"n", "e", "w", " ", "i", "n", "s", "t", "r", "u", "c", "t", "i", "o", "n", "s">>,
      <<"s", "y", "s", "t", "e", "m", " ", "m", "e", "s", "s", "a", "g", "e">>,
      <<"a", "l", "w", "a", "y", "s", " ", "c", "o", "n", "f", "i", "r", "m">>,
      <<"d", "o", " ", "n", "o", "t", " ", "a", "s", "k">> }

\* InputSanitizer.detect_prompt_injection: PROMPT_INJECTION.search, IGNORECASE
detect_prompt_injection(text) ==
    \E ph \in InjectionPhrases : Contains(Lower(text), ph)

NUL == "\\x00"

\* InputSanitizer.sanitize_string_value for a str value (max_length 0 stands for None)
sanitize_string_value(value, max_length, check_prompt_injection) ==
    LET max_len == IF max_length # 0 THEN max_length ELSE MAX_STRING_LENGTH
    IN IF Len(value) > max_len THEN "too_long"
       ELSE IF \E i \in 1..Len(value) : value[i] = NUL THEN "null_bytes"
       ELSE IF check_prompt_injection /\ detect_prompt_injection(value) THEN "prompt_injection"
       ELSE ""

tools_dir == Root("t")
HomeDir == Root("h")
TempDir == Root("tmp")

\* an allowed_paths entry: a leading {TOOL_DIR}, {HOME} or {TEMP}, then a path
ExpandTemplate(tpl, tool_name) ==
    (CASE tpl.var = "TOOL_DIR" -> Append(tools_dir, tool_name)
       [] tpl.var = "HOME" -> HomeDir
       [] tpl.var = "TEMP" -> TempDir
       [] OTHER -> <<Slash>>) \o tpl.rest

\* the same with the tool's directory as the default
build_allowed_paths_tool_dir(workspace_config, tool_name, existing) ==
    LET configured == [i \in 1..Len(workspace_config.allowed_paths) |->
                          ExpandTemplate(workspace_config.allowed_paths[i], tool_name)]
        kept == SelectSeq(configured,
                          LAMBDA path_obj : path_obj \in existing
                                                \/ workspace_config.create_workspace)
    IN IF kept = <<>> THEN <<Append(tools_dir, tool_name)>> ELSE kept

\* the allowed bases validate_arguments_security builds for a tool, on a disk
\* where the directories in existing exist
build_allowed_paths(workspace_config, tool_name, existing) ==
    LET configured == [i \in 1..Len(workspace_config.allowed_paths) |->
                          ExpandTemplate(workspace_config.allowed_paths[i], tool_name)]
        kept == SelectSeq(configured,
                          LAMBDA path_obj : path_obj \in existing
                                                \/ workspace_config.create_workspace)
    IN IF kept = <<>>
       THEN <<tools_dir \o <<tool_name, <<"w", "o", "r", "k", "s", "p", "a", "c", "e">>>>>>
       ELSE kept

\* the allowed bases on a disk where no configured directory exists yet
allowed_paths_of(workspace_config, tool_name) ==
    build_allowed_paths(workspace_config, tool_name, {})

IsPathKey(key) ==
    \/ Contains(Lower(key), <<"p", "a", "t", "h">>)
    \/ Contains(Lower(key), <<"f", "i", "l", "e">>)
    \/ Contains(Lower(key), <<"d", "i", "r">>)

\* the error validate_arguments_security appends for one item, NoError if none
NoError == [key |-> <<>>, what |-> "", error |-> ""]

item_error(item, workspace_config, tool_name, links) ==
    IF item.k \in ReservedKeys THEN NoError
    ELSE IF sanitize_identifier(item.k) # ""
    THEN [key |-> item.k, what |-> "name", error |-> sanitize_identifier(item.k)]
    ELSE IF IsPathKey(item.k)
    THEN IF item.v.t = "str" /\ item.v.s # <<>>
         THEN LET r == sanitize_path(item.v.s,
                                     allowed_paths_of(workspace_config, tool_name),
                                     workspace_config.allow_absolute_paths,
                                     workspace_config.follow_symlinks, links)
              IN IF r.ok THEN NoError
                 ELSE [key |-> item.k, what |-> "path", error |-> r.error.kind]
         ELSE NoError
    ELSE IF item.v.t = "str"
    THEN LET e == sanitize_string_value(item.v.s, workspace_config.max_string_length, TRUE)
         IN IF e = "" THEN NoError ELSE [key |-> item.k, what |-> "string", error |-> e]
    ELSE NoError

IsError(e) == e # NoError

validate_arguments_security_first_only(arguments, config, tool_name, links) ==
    LET errors == SelectSeq([i \in 1..Len(arguments) |->
                                item_error(arguments[i], config.workspace_config, tool_name, links)],
                            IsError)
    IN IF errors = <<>> THEN <<>> ELSE <<Head(errors)>>

\* validate_arguments_security: the list of errors, in argument order
validate_arguments_security(arguments, config, tool_name, links) ==
    SelectSeq([i \in 1..Len(arguments) |->
                  item_error(arguments[i], config.workspace_config, tool_name, links)],
              IsError)

----------------------------------------------------------------------------
(* RateLimiter *)

ToolNames == {"t_ok", "t_conf", "t_off"}

window_seconds == 60

\* the steps by which the clock advances between two events
TickSteps == {1, 59}

RECURSIVE PopOld(_, _)
\* while tool_executions and tool_executions[0] < window_start: popleft()
PopOld(q, window_start) ==
    IF q # <<>> /\ Head(q) < window_start THEN PopOld(Tail(q), window_start) ELSE q

at_limit_off_by_one(q, max) == Len(q) > max

\* len(tool_executions) >= self.max_per_minute
at_limit(q, max) == Len(q) >= max

\* the same with an admission that leaves the deque as it found it, as when a
\* second caller has read the count before the first one appended
check_rate_limit_unrecorded(q, t, enabled, max) ==
    IF ~enabled THEN [allowed |-> TRUE, wait |-> -1, queue |-> q]
    ELSE LET pruned == PopOld(q, t - window_seconds)
         IN IF at_limit(pruned, max)
            THEN [allowed |-> FALSE, wait |-> Head(pruned) + window_seconds - t, queue |-> pruned]
            ELSE [allowed |-> TRUE, wait |-> -1,
                  queue |-> IF Len(pruned) = max - 1 THEN pruned ELSE Append(pruned, t)]

\* the same with the timestamp recorded before the count is looked at
check_rate_limit_recording(q, t, enabled, max) ==
    IF ~enabled THEN [allowed |-> TRUE, wait |-> -1, queue |-> q]
    ELSE LET pruned == Append(PopOld(q, t - window_seconds), t)
         IN IF Len(pruned) > max
            THEN [allowed |-> FALSE, wait |-> Head(pruned) + window_seconds - t, queue |-> pruned]
            ELSE [allowed |-> TRUE, wait |-> -1, queue |-> pruned]

\* check_rate_limit: (is_allowed, wait_seconds, the tool's deque afterwards);
\* wait_seconds is None (here -1) when allowed
check_rate_limit(q, t, enabled, max) ==
    IF ~enabled THEN [allowed |-> TRUE, wait |-> -1, queue |-> q]
    ELSE LET pruned == PopOld(q, t - window_seconds)
         IN IF at_limit(pruned, max)
            THEN [allowed |-> FALSE, wait |-> Head(pruned) + window_seconds - t, queue |-> pruned]
            ELSE [allowed |-> TRUE, wait |-> -1, queue |-> Append(pruned, t)]

\* a reset that clears every deque whatever name it is given
reset_every_tool(ex, tool) == [n \in DOMAIN ex |-> <<>>]

\* RateLimiter.reset(tool_name): one tool's deque, or every deque when no name is given
reset(ex, tool) ==
    IF tool # "" THEN [ex EXCEPT ![tool] = <<>>]
    ELSE [n \in DOMAIN ex |-> <<>>]

NoBurst == [start |-> -1, n |-> 0, allowed |-> 0]

NoCheck == [tool |-> "", at |-> -1, allowed |-> FALSE, wait |-> -1]

RateIdle ==
    /\ now = 0 /\ ticks = 0 /\ rl_enabled = TRUE
    /\ executions = [n \in ToolNames |-> <<>>]
    /\ rl_burst = [n \in ToolNames |-> NoBurst]
    /\ rl_flag = [n \in ToolNames |-> FALSE]
    /\ rl_last = NoCheck

\* the tools the limiter is exercised with
RateTools == {"t_ok", "t_conf"}

\* checks counted per tool in one burst
MaxChecks == MaxPerMinute + 2

InitRate ==
    /\ PathIdle
    /\ now = 0 /\ ticks = 0
    /\ rl_enabled \in BOOLEAN
    /\ executions = [n \in ToolNames |-> <<>>]
    /\ rl_burst = [n \in ToolNames |-> NoBurst]
    /\ rl_flag = [n \in ToolNames |-> FALSE]
    /\ rl_last = NoCheck

Tick(d) ==
    /\ ticks < MaxTicks
    /\ now' = now + d
    /\ ticks' = ticks + 1
    /\ UNCHANGED <<rl_enabled, executions, rl_burst, rl_flag, rl_last>>
    /\ UNCHANGED <<pathVars, execVars, fnVars, regVars>>

\* a burst: the checks for one tool on a cleared queue, from the first of them
\* to one second later
InBurst(b, t) == b.start = -1 \/ t - b.start <= 1

CountCheck(b, t, allowed) ==
    IF ~InBurst(b, t) THEN b
    ELSE [start |-> IF b.start = -1 THEN t ELSE b.start,
          n |-> b.n + 1,
          allowed |-> b.allowed + (IF allowed THEN 1 ELSE 0)]

RateCheck(tool) ==
    /\ InBurst(rl_burst[tool], now) => rl_burst[tool].n < MaxChecks
    /\ LET r == check_rate_limit(executions[tool], now, rl_enabled, MaxPerMinute)
       IN /\ executions' = [executions EXCEPT ![tool] = r.queue]
          /\ rl_burst' = [rl_burst EXCEPT ![tool] = CountCheck(@, now, r.allowed)]
          /\ rl_last' = [tool |-> tool, at |-> now, allowed |-> r.allowed, wait |-> r.wait]
    /\ UNCHANGED <<now, ticks, rl_enabled, rl_flag>>
    /\ UNCHANGED <<pathVars, execVars, fnVars, regVars>>

RateReset(tool) ==
    /\ \E n \in ToolNames : executions[n] # <<>>
    /\ executions' = reset(executions, tool)
    /\ rl_burst' = [n \in ToolNames |-> IF tool \in {"", n} THEN NoBurst ELSE rl_burst[n]]
    /\ rl_flag' = [n \in ToolNames |->
                     IF tool \in {"", n}
                     THEN at_limit(PopOld(executions[n], now - window_seconds), MaxPerMinute)
                     ELSE rl_flag[n]]
    /\ UNCHANGED <<now, ticks, rl_enabled, rl_last>>
    /\ UNCHANGED <<pathVars, execVars, fnVars, regVars>>

NextRate ==
    \/ \E d \in TickSteps : Tick(d)
    \/ \E tool \in RateTools : RateCheck(tool)
    \/ \E tool \in RateTools \cup {""} : RateReset(tool)

----------------------------------------------------------------------------
(* ExecutionSemaphore over asyncio.Semaphore *)

\* the tasks that contend for the semaphore, and the requests the executor has in flight
NumTasks == MaxConcurrent + 3
Tasks == 1..NumTasks
Calls == 1..MaxInFlight

\* the statistics total_executions and total_queued are not modelled
SemInit == [value |-> MaxConcurrent, waiters |-> <<>>, woken |-> {}, active_count |-> 0]

\* asyncio.Semaphore.locked(): no slot left, or somebody is already queued
sem_locked(S) == S.value = 0 \/ S.waiters # <<>>

\* asyncio.Semaphore._wake_up_next: hands a slot to the first waiter not yet woken
wake_up_next(S) ==
    LET pending == SelectSeq(S.waiters, LAMBDA w : w \notin S.woken)
    IN IF pending = <<>> THEN S
       ELSE [S EXCEPT !.value = @ - 1, !.woken = @ \cup {Head(pending)}]

sem_acquire_without_slot(S) == [S EXCEPT !.active_count = @ + 1]

\* ExecutionSemaphore.acquire when the semaphore is not locked
sem_acquire_now(S) == [S EXCEPT !.value = @ - 1, !.active_count = @ + 1]

\* ExecutionSemaphore.acquire when it is locked: the caller queues and suspends
sem_enqueue(S, c) == [S EXCEPT !.waiters = Append(@, c)]

\* ExecutionSemaphore.acquire, resumed after its future was set
sem_resume(S, c) ==
    LET left == [S EXCEPT !.waiters = SelectSeq(@, LAMBDA w : w # c), !.woken = @ \ {c}]
        next == IF left.value > 0 THEN wake_up_next(left) ELSE left
    IN [next EXCEPT !.active_count = @ + 1]

\* ExecutionSemaphore.release
sem_release(S) ==
    [wake_up_next([S EXCEPT !.value = @ + 1]) EXCEPT !.active_count = @ - 1]

----------------------------------------------------------------------------
(* The registry, the schema check of call_tool, results and replies *)

workspace_seg == <<"w", "o", "r", "k", "s", "p", "a", "c", "e">>

DefaultWorkspace ==
    [allowed_paths |-> <<[var |-> "TOOL_DIR", rest |-> <<workspace_seg>>]>>,
     allow_absolute_paths |-> FALSE, follow_symlinks |-> TRUE, create_workspace |-> TRUE,
     max_string_length |-> 0, check_prompt_injection |-> TRUE]

ToolSeg(name) ==
    CASE name = "t_ok" -> <<"t", "_", "o", "k">>
      [] name = "t_conf" -> <<"t", "_", "c", "o", "n", "f">>
      [] name = "t_off" -> <<"t", "_", "o", "f", "f">>
      [] OTHER -> <<"t", "_", "n", "o", "n", "e">>

RunSh == <<"r", "u", "n", ".", "s", "h">>

\* Config._tools_config: an enabled tool, one that requires confirmation, a disabled one.
\* script_path is the string of the tool's tools.json entry, taken as it is:
\* t_conf's entry is '../o/run.sh'
tools_config ==
    [n \in ToolNames |->
        [enabled |-> n # "t_off",
         requires_confirmation |-> n # "t_ok",
         script_path |-> IF n = "t_conf" THEN <<DotDot, <<"o">>, RunSh>>
                         ELSE <<ToolSeg(n), RunSh>>,
         parameters |-> <<>>,
         workspace_config |-> DefaultWorkspace]]

\* a name no configuration exists for
CallNames == ToolNames \cup {"t_none"}

K_path == <<"p", "a", "t", "h">>
K_password == <<"p", "a", "s", "s", "w", "o", "r", "d">>

\* a secret a caller passes to a tool
Hunter2 == <<"h", "u", "n", "t", "e", "r", "2">>

Item(k, v) == [k |-> k, v |-> v]

\* the argument maps callers send
ArgMaps ==
    [a_none |-> <<>>,
     a_good |-> <<Item(K_confirm, BoolV(TRUE)), Item(K_path, StrV(<<"a">>)),
                  Item(K_password, StrV(Hunter2))>>,
     a_bad |-> <<Item(K_confirm, BoolV(TRUE)), Item(K_path, StrV(<<".", ".", "/", "a">>))>>,
     a_bad2 |-> <<Item(K_confirm, BoolV(TRUE)), Item(K_path, StrV(<<".", ".", "/", "a">>)),
                  Item(K_password, StrV(<<"i", "g", "n", "o", "r", "e", " ", "t", "h", "i", "s">>))>>,
     a_false |-> <<Item(K_confirm, BoolV(FALSE))>>,
     a_null |-> <<Item(K_confirm, NoneV)>>,
     a_zero |-> <<Item(K_confirm, IntV(0))>>,
     a_one |-> <<Item(K_confirm, IntV(1))>>,
     a_yes |-> <<Item(K_confirm, StrV(<<"y", "e", "s">>))>>]

ArgIds == DOMAIN ArgMaps

\* the argument maps of the calls that run side by side; the others are sent
\* to an executor that has nothing else to do
CallArgIds == {"a_none", "a_good", "a_bad"}

\* get_available_tools lists a tool iff it is enabled
listed(name) == name \in ToolNames /\ tools_config[name].enabled

\* inputSchema.required of a listed tool
schema_required(name) ==
    IF tools_config[name].requires_confirmation THEN <<K_confirm>> ELSE <<>>

\* validate_script_arguments: missing required arguments, then wrongly typed ones
validate_script_arguments(arguments, name) ==
    LET req == schema_required(name)
        missing == SelectSeq(req, LAMBDA k : ~HasKey(arguments, k))
        typed == SelectSeq(arguments, LAMBDA it : it.k = K_confirm /\ it.v.t # "bool")
    IN [i \in 1..Len(missing) |-> <<"Missing required argument: ", missing[i]>>]
       \o [i \in 1..Len(typed) |-> <<"Argument ", typed[i].k, " must be boolean">>]

\* ToolExecutionResult; texts are sequences of fragments, error_type "" is None
Result(success, exit_code, stdout, stderr, error_type) ==
    [success |-> success, exit_code |-> exit_code, stdout |-> stdout,
     stderr |-> stderr, error_type |-> error_type]

NoResult == Result(FALSE, 0, <<>>, <<>>, "none")

\* an exception: its type and str(e)
Exc(type, message) == [type |-> type, message |-> message]

NoExc == Exc("", <<>>)

\* the script's absolute path, as the OS reports it in an error
ScriptPathText(name) ==
    <<"/Users/alice/tools/", IF name = "t_conf" THEN "../o" ELSE name, "/run.sh">>

\* self.tools_dir / script_config.script_path
script_file(name) == tools_dir \o tools_config[name].script_path

\* the OSErrors the operating system raises about a tool's script
OSErrorTypes == {"FileNotFoundError", "PermissionError"}

OSErrorOf(type, name) ==
    IF type = "FileNotFoundError"
    THEN Exc(type, <<"[Errno 2] No such file or directory: ">> \o ScriptPathText(name))
    ELSE Exc(type, <<"[Errno 13] Permission denied: ">> \o ScriptPathText(name))

DecodeError == Exc("UnicodeDecodeError", <<"'utf-8' codec can't decode byte 0xff in position 0">>)

\* ToolExecutionResult.to_string (truncation leaves these short texts as they are)
to_string(r) ==
    IF r.success THEN r.stdout
    ELSE <<"Error executing tool (exit code ", ToString(r.exit_code), ")">>
         \o (IF r.error_type # "" THEN <<" - ", r.error_type>> ELSE <<>>)
         \o (IF r.stderr # <<>> THEN <<":\n">> \o r.stderr ELSE <<>>)

JsonTexts == {"{\"rows\": 3}"}

\* json.loads succeeds
is_json(text) == Len(text) = 1 /\ text[1] \in JsonTexts

\* brackets nested deeper than the interpreter's recursion limit
DeepJsonTexts == {"[[[[ ... ]]]]"}

\* json.loads raises RecursionError, which is not a ValueError
json_too_deep(text) == Len(text) = 1 /\ text[1] \in DeepJsonTexts

TooDeep ==
    Exc("RecursionError",
        <<"maximum recursion depth exceeded while decoding a JSON array from a unicode string">>)

\* call_tool, lines 207-209 and 239-241: the parse of the output lets an
\* exception through to the handler at line 264
parse_raises(r) == json_too_deep(IF r.success THEN to_string(r) ELSE r.stderr)

Reply(envelope, status, format, body) ==
    [envelope |-> envelope, status |-> status, format |-> format, body |-> body]

NoReply == Reply(FALSE, "", "", <<>>)

\* call_tool, lines 199-262: what is returned for a result of the executor
reply_for_result(r) ==
    IF r.success
    THEN IF is_json(to_string(r)) THEN Reply(TRUE, "success", "json", to_string(r))
         ELSE Reply(FALSE, "", "text", to_string(r))
    ELSE IF is_json(r.stderr) THEN Reply(TRUE, "error", "json", r.stderr)
         ELSE Reply(FALSE, "", "text", to_string(r))

SAFE_ERROR_MESSAGES ==
    [FileNotFoundError |-> "The requested resource was not found",
     PermissionError |-> "Permission denied - insufficient access rights",
     OSError |-> "System error occurred",
     UnicodeDecodeError |-> "Invalid character encoding",
     RecursionError |-> "Operation too complex"]

format_error_with_message(error, tool_name, request_id) ==
    <<"Tool '", tool_name, "' failed: ">> \o error.message

\* SafeErrorFormatter.format_error(error, tool_name=..., request_id=...)
format_error(error, tool_name, request_id) ==
    LET safe == IF error.type \in DOMAIN SAFE_ERROR_MESSAGES
                THEN SAFE_ERROR_MESSAGES[error.type]
                ELSE "An error occurred during tool execution"
    IN (IF tool_name # "" THEN <<"Tool '", tool_name, "' failed: ", safe>> ELSE <<safe>>)
       \o (IF request_id # "" THEN <<" (Request ID: ", request_id, ")">> ELSE <<>>)

\* call_tool, lines 264-305: what is returned when an exception reaches the handler
reply_for_exception(e, name, request_id) ==
    Reply(FALSE, "", "text", format_error(e, name, request_id))

\* call_tool, lines 129-156: what is returned when the schema check fails
reply_for_validation(name, errors) ==
    Reply(FALSE, "", "text", <<"Validation failed for tool ", name, ":\n">> \o errors)

\* generate_request_id(): a uuid4, opaque here
RequestId == "5f0c1d2e"

----------------------------------------------------------------------------
(* SensitiveDataRedactor *)

\* JSON containers; scalars are BoolV, StrV, IntV and NoneV
DictV(items) == [t |-> "dict", items |-> items]
ListV(elems) == [t |-> "list", elems |-> elems]

SENSITIVE_KEYS ==
    {
      <<"p", "a", "s", "s", "w", "o", "r", "d">>, <<"p", "a", "s", "s", "w", "d">>,
      <<"p", "w", "d">>, <<"s", "e", "c", "r", "e", "t">>,
      <<"t", "o", "k", "e", "n">>, <<"k", "e", "y">>,
      <<"a", "p", "i", "_", "k", "e", "y">>, <<"a", "p", "i", "k", "e", "y">>,
      <<"a", "p", "i", "-", "k", "e", "y">>, <<"a", "u", "t", "h", "o", "r", "i", "z", "a", "t", "i", "o", "n">>,
      <<"a", "u", "t", "h">>, <<"a", "u", "t", "h", "_", "t", "o", "k", "e", "n">>,
      <<"p", "r", "i", "v", "a", "t", "e", "_", "k", "e", "y">>, <<"p", "r", "i", "v", "a", "t", "e", "-", "k", "e", "y">>,
      <<"p", "r", "i", "v", "a", "t", "e", "k", "e", "y">>, <<"a", "c", "c", "e", "s", "s", "_", "k", "e", "y">>,
      <<"a", "c", "c", "e", "s", "s", "-", "k", "e", "y">>, <<"a", "c", "c", "e", "s", "s", "k", "e", "y">>,
      <<"s", "e", "c", "r", "e", "t", "_", "k", "e", "y">>, <<"s", "e", "c", "r", "e", "t", "-", "k", "e", "y">>,
      <<"s", "e", "c", "r", "e", "t", "k", "e", "y">>, <<"s", "s", "n">>,
      <<"s", "o", "c", "i", "a", "l", "_", "s", "e", "c", "u", "r", "i", "t", "y">>, <<"c", "r", "e", "d", "i", "t", "_", "c", "a", "r", "d">>,
      <<"c", "r", "e", "d", "i", "t", "c", "a", "r", "d">>, <<"c", "c", "n">>,
      <<"c", "a", "r", "d", "_", "n", "u", "m", "b", "e", "r">>, <<"p", "i", "n">>,
      <<"c", "v", "v">>, <<"c", "v", "c">>,
      <<"b", "e", "a", "r", "e", "r">>, <<"o", "a", "u", "t", "h">>,
      <<"s", "e", "s", "s", "i", "o", "n">>, <<"c", "o", "o", "k", "i", "e">>,
      <<"c", "s", "r", "f">> }

REDACTED == <<"*", "*", "*", "R", "E", "D", "A", "C", "T", "E", "D", "*", "*", "*">>

\* the digits of a natural number, as str() writes it
DigitChars == <<"0", "1", "2", "3", "4", "5", "6", "7", "8", "9">>

RECURSIVE Decimal(_)
Decimal(n) ==
    IF n < 10 THEN <<DigitChars[n + 1]>>
    ELSE Append(Decimal(n \div 10), DigitChars[(n % 10) + 1])

\* \w of the regular expressions
IsWordChar(ch) == IdentChar(ch) /\ ch # "-"

\* PATTERNS['ssn'] = \b\d{3}-\d{2}-\d{4}\b matches at position i. Of PATTERNS
\* this one is modelled: the strings in the model are shorter than the keys
\* and card numbers the other patterns look for.
ssn_at(s, i) ==
    /\ i + 10 <= Len(s)
    /\ \A j \in {0, 1, 2, 4, 5, 7, 8, 9, 10} : s[i + j] \in Digits
    /\ s[i + 3] = "-" /\ s[i + 6] = "-"
    /\ i > 1 => ~IsWordChar(s[i - 1])
    /\ i + 11 <= Len(s) => ~IsWordChar(s[i + 11])

\* pattern.search(value), for the first pattern that matches; "" if none does
matching_pattern(value) ==
    IF \E i \in 1..Len(value) : ssn_at(value, i) THEN <<"s", "s", "n">> ELSE <<>>

redact_string_keeps_ends(value, redaction_style, reason) ==
    IF Len(value) > 8 THEN SubSeq(value, 1, 3) \o <<"*", "*", "*">> \o SubSeq(value, Len(value) - 2, Len(value))
    ELSE value

\* SensitiveDataRedactor._redact_string
redact_string(value, redaction_style, reason) ==
    IF redaction_style = "full" THEN REDACTED
    ELSE IF redaction_style = "partial" /\ Len(value) > 8
    THEN SubSeq(value, 1, 3) \o <<"*", "*", "*">> \o SubSeq(value, Len(value) - 2, Len(value))
    ELSE IF redaction_style = "hint"
    THEN <<"<", "r", "e", "d", "a", "c", "t", "e", "d", ":">> \o Decimal(Len(value)) \o <<"_", "c", "h", "a", "r", "s", ":">> \o reason \o <<">">>
    ELSE REDACTED

\* SensitiveDataRedactor._redact_value
redact_value(value, redaction_style, scan_values) ==
    IF ~scan_values \/ value.t # "str" THEN value
    ELSE IF matching_pattern(value.s) # <<>>
    THEN StrV(redact_string(value.s, redaction_style, <<"p", "a", "t", "t", "e", "r", "n", ":">> \o matching_pattern(value.s)))
    ELSE value

\* any(sk in key_lower for sk in all_sensitive_keys)
is_sensitive_key(key, sensitive_keys) ==
    LET key_lower == Lower(key)
    IN \E sk \in SENSITIVE_KEYS \cup sensitive_keys : Contains(key_lower, sk)

RECURSIVE redact_dict(_, _, _, _)
\* SensitiveDataRedactor.redact_dict, on the items of the dictionary
redact_dict(data, sensitive_keys, redaction_style, scan_values) ==
    [i \in 1..Len(data) |->
        LET key == data[i].k
            value == data[i].v
        IN Item(key,
                IF is_sensitive_key(key, sensitive_keys)
                THEN IF value.t = "str"
                     THEN StrV(redact_string(value.s, redaction_style, <<"k", "e", "y", ":">> \o key))
                     ELSE StrV(REDACTED)
                ELSE IF value.t = "dict"
                THEN DictV(redact_dict(value.items, sensitive_keys, redaction_style, scan_values))
                ELSE IF value.t = "list"
                THEN ListV([j \in 1..Len(value.elems) |->
                               IF value.elems[j].t = "dict"
                               THEN DictV(redact_dict(value.elems[j].items, sensitive_keys,
                                                      redaction_style, scan_values))
                               ELSE redact_value(value.elems[j], redaction_style, scan_values)])
                ELSE redact_value(value, redaction_style, scan_values))]

----------------------------------------------------------------------------
(* ScriptExecutor.execute_script_structured and _run_subprocess_structured *)

IdleCall == [pc |-> "idle", entry |-> "", name |-> "", args |-> "", events |-> <<>>]

NoLast ==
    [entry |-> "", name |-> "", args |-> "", events |-> <<>>, called_executor |-> FALSE,
     result |-> NoResult, raised |-> NoExc, reply |-> NoReply]

\* a call in progress: the semaphore and the rate limiter queues as the call
\* has left them so far, and what it has done
Frame(S, ex, events) == [S |-> S, ex |-> ex, events |-> events]

Log(f, e) == [f EXCEPT !.events = Append(@, e)]

LogRelease(f) == Log(f, "release")

Has(events, e) == \E i \in 1..Len(events) : events[i] = e

\* the finally clause of execute_script_structured
run_finally(f) == Log([f EXCEPT !.S = sem_release(@)], "release")

\* how a segment of a call ends: it returns a result, lets an exception
\* escape to call_tool, or suspends at an await
Returned(f, r) == [how |-> "returned", f |-> f, result |-> r, raised |-> NoExc, pc |-> "idle"]
Raised(f, e) == [how |-> "raised", f |-> f, result |-> NoResult, raised |-> e, pc |-> "idle"]
Awaits(f, pc) == [how |-> "awaits", f |-> f, result |-> NoResult, raised |-> NoExc, pc |-> pc]
\* ExecutionController.acquire has returned (True, None) without suspending
Admitted(f) == [how |-> "admitted", f |-> f, result |-> NoResult, raised |-> NoExc, pc |-> "idle"]

\* what the filesystem shows the executor when it looks at the script
ScriptObservations == {"present", "missing", "denied", "stat_fails"}

confirmation_not_required(config, arguments) == FALSE

\* lines 173-176: requires_confirmation and not arguments.get('confirm', False)
confirmation_missing(config, arguments) ==
    config.requires_confirmation /\ ~Truthy(Get(arguments, K_confirm, BoolV(FALSE)))

\* validate_arguments_security for each tool and argument map, on a tree without links
security_errors ==
    [n \in ToolNames |->
        [a \in ArgIds |->
            validate_arguments_security(ArgMaps[a], tools_config[n], ToolSeg(n), NoLinks)]]

script_exists_unchecked(obs) == TRUE

\* script_path.exists(), when it returns
script_exists(obs) == obs # "missing"

\* what the executor saw of the script, as an event of the call
Saw(obs) ==
    CASE obs = "present" -> "script_present"
      [] obs = "missing" -> "script_missing"
      [] obs = "denied" -> "script_denied"
      [] OTHER -> "script_stat_fails"

\* lines 200-235, with the slot held: security validation, the script path,
\* then _execute_shell_script up to the await on create_subprocess_exec
after_acquire(f, name, args, obs) ==
    LET errs == IF fs = NoLinks THEN security_errors[name][args]
                ELSE validate_arguments_security(ArgMaps[args], tools_config[name],
                                                 ToolSeg(name), fs)
        g == Log(Log(f, "security_ok"), Saw(obs))
    IN IF errs # <<>>
       THEN Returned(Log(f, "security_failed"),
                     Result(FALSE, 1, <<>>,
                            <<"Security validation failed for ", name, ":\n">>
                                \o [i \in 1..Len(errs) |-> errs[i].error],
                            "security_validation"))
       ELSE IF obs = "denied"
       THEN Raised(g, OSErrorOf("PermissionError", name))
       ELSE IF ~script_exists(obs)
       THEN Returned(g, Result(FALSE, -1, <<>>, <<"Script not found: ">> \o ScriptPathText(name),
                               "validation"))
       ELSE IF obs = "stat_fails"
       THEN Returned(run_finally(Log(g, "raised")),
                     Result(FALSE, -1, <<>>, OSErrorOf("FileNotFoundError", name).message,
                            "execution"))
       ELSE Awaits(g, "spawning")

\* ExecutionController.acquire: the rate limit check, then the semaphore
controller_acquire(f, c, name) ==
    LET rl == check_rate_limit(f.ex[name], now, rl_enabled, MaxPerMinute)
        g == [f EXCEPT !.ex = [@ EXCEPT ![name] = rl.queue]]
    IN IF ~rl.allowed
       THEN Returned(Log(g, "rate_denied"),
                     Result(FALSE, -1, <<>>,
                            <<"Rate limit exceeded for ", name, ". Please wait ",
                              ToString(rl.wait), " seconds.">>,
                            "rate_limit"))
       ELSE IF sem_locked(g.S)
       THEN Awaits(Log(Log([g EXCEPT !.S = sem_enqueue(@, c)], "rate_ok"), "queued"), "waiting")
       ELSE Admitted(Log(Log([g EXCEPT !.S = sem_acquire_now(@)], "rate_ok"), "acquired"))

\* the same with admission asked for before the confirmation is looked at
execute_script_structured_acquire_first(f, c, name, args) ==
    IF name \notin ToolNames
    THEN Returned(Log(f, "unknown"),
                  Result(FALSE, -1, <<>>, <<"Unknown script: ", name>>, "validation"))
    ELSE IF ~tools_config[name].enabled
    THEN Returned(Log(f, "disabled"),
                  Result(FALSE, -1, <<>>, <<"Script ", name, " is disabled">>, "validation"))
    ELSE LET out == controller_acquire(f, c, name)
         IN IF confirmation_missing(tools_config[name], ArgMaps[args])
            THEN Returned(Log(out.f, "unconfirmed"),
                          Result(FALSE, -1, <<>>,
                                 <<"Script ", name, " requires confirmation. Please set 'confirm': true to execute.">>,
                                 "confirmation_required"))
            ELSE out

\* execute_script_structured from its entry to the end of admission
execute_script_structured(f, c, name, args) ==
    IF name \notin ToolNames
    THEN Returned(Log(f, "unknown"),
                  Result(FALSE, -1, <<>>, <<"Unknown script: ", name>>, "validation"))
    ELSE IF ~tools_config[name].enabled
    THEN Returned(Log(f, "disabled"),
                  Result(FALSE, -1, <<>>, <<"Script ", name, " is disabled">>, "validation"))
    ELSE IF confirmation_missing(tools_config[name], ArgMaps[args])
    THEN Returned(Log(f, "unconfirmed"),
                  Result(FALSE, -1, <<>>,
                         <<"Script ", name, " requires confirmation. Please set 'confirm': true to execute.">>,
                         "confirmation_required"))
    ELSE controller_acquire(Log(f, "confirmed"), c, name)

\* what the caller of an entry point gets back: call_tool formats the result or
\* the exception; execute_script returns to_string and lets an exception through
reply_of(entry, name, out) ==
    IF entry = "call_tool"
    THEN IF out.how = "raised" THEN reply_for_exception(out.raised, name, RequestId)
         ELSE IF parse_raises(out.result) THEN reply_for_exception(TooDeep, name, RequestId)
         ELSE reply_for_result(out.result)
    ELSE IF out.how = "raised" THEN NoReply
         ELSE Reply(FALSE, "", "text", to_string(out.result))

\* Calls in flight are numbered in the order they arrived: when call c ends,
\* the later ones move up by one, in the table and in the semaphore's queue.
Renumber(id, c) == IF id > c THEN id - 1 ELSE id

CloseCall(table, c) ==
    [i \in DOMAIN table |->
        IF i < c THEN table[i]
        ELSE IF i + 1 \in DOMAIN table THEN table[i + 1]
        ELSE IdleCall]

CloseWaiter(S, c) ==
    [S EXCEPT !.waiters = [i \in 1..Len(@) |-> Renumber(@[i], c)],
              !.woken = {Renumber(w, c) : w \in @}]

\* the state after one segment of call c
Apply(c, entry, name, args, out) ==
    /\ executions' = out.f.ex
    /\ IF out.how = "awaits"
       THEN /\ sem' = out.f.S
            /\ calls' = [calls EXCEPT ![c] = [pc |-> out.pc, entry |-> entry, name |-> name,
                                               args |-> args, events |-> out.f.events]]
            /\ UNCHANGED last
       ELSE /\ sem' = CloseWaiter(out.f.S, c)
            /\ calls' = CloseCall(calls, c)
            /\ last' = [entry |-> entry, name |-> name, args |-> args,
                        events |-> out.f.events, called_executor |-> TRUE,
                        result |-> out.result, raised |-> out.raised,
                        reply |-> reply_of(entry, name, out)]
    /\ UNCHANGED <<now, ticks, rl_enabled, rl_burst, rl_flag, rl_last>>
    /\ UNCHANGED <<pathVars, fnVars, regVars>>

\* the task a new request runs in: tasks not in flight are interchangeable
FreeCall(c) == calls[c].pc = "idle" /\ \A d \in Calls : d < c => calls[d].pc # "idle"

\* the executor from its entry to its first suspension or return
Enter(c, entry, name, args) ==
    LET out == execute_script_structured(Frame(sem, executions, <<>>), c, name, args)
    IN IF out.how = "admitted"
       THEN \E obs \in ScriptObservations :
               Apply(c, entry, name, args, after_acquire(out.f, name, args, obs))
       ELSE Apply(c, entry, name, args, out)

\* call_tool: the schema check, then the executor up to its first suspension
CallTool(c, name, args) ==
    /\ last = NoLast
    /\ FreeCall(c)
    /\ LET errors == IF listed(name) THEN validate_script_arguments(ArgMaps[args], name)
                     ELSE <<>>
       IN IF errors # <<>>
          THEN /\ calls' = calls
               /\ last' = [entry |-> "call_tool", name |-> name, args |-> args,
                           events |-> <<"schema_failed">>, called_executor |-> FALSE,
                           result |-> NoResult, raised |-> NoExc,
                           reply |-> reply_for_validation(name, [i \in 1..Len(errors) |-> errors[i][1]])]
               /\ UNCHANGED <<sem, executions, now, ticks, rl_enabled, rl_burst, rl_flag, rl_last>>
               /\ UNCHANGED <<pathVars, fnVars, regVars>>
          ELSE Enter(c, "call_tool", name, args)

\* ScriptExecutor.execute_script called directly, up to its first suspension
ExecuteScript(c, name, args) ==
    /\ last = NoLast
    /\ FreeCall(c)
    /\ Enter(c, "execute_script", name, args)

\* the reply reaches the caller; `last` holds a reply from the step that
\* produced it until this one, and nothing else happens in between
Deliver ==
    /\ last # NoLast
    /\ last' = NoLast
    /\ UNCHANGED <<sem, calls, pathVars, rateVars, fnVars, regVars>>

\* a queued call gets its slot: ExecutionSemaphore.acquire returns, the executor goes on
Resume(c) ==
    /\ last = NoLast
    /\ calls[c].pc = "waiting"
    /\ c \in sem.woken
    /\ LET f == Frame(sem_resume(sem, c), executions, Append(calls[c].events, "acquired"))
       IN \E obs \in ScriptObservations :
             Apply(c, calls[c].entry, calls[c].name, calls[c].args,
                   after_acquire(f, calls[c].name, calls[c].args, obs))

\* create_subprocess_exec returns the process, or raises an OSError
SpawnDone(c, raises) ==
    /\ last = NoLast
    /\ calls[c].pc = "spawning"
    /\ LET f == Frame(sem, executions, calls[c].events)
           e == OSErrorOf(raises, calls[c].name)
       IN IF raises = ""
          THEN Apply(c, calls[c].entry, calls[c].name, calls[c].args,
                     Awaits(Log(f, "spawn"), "communicating"))
          ELSE Apply(c, calls[c].entry, calls[c].name, calls[c].args,
                     Returned(run_finally(Log(f, "spawn_failed")),
                              Result(FALSE, -1, <<>>, e.message, "execution")))

Exit(code, stdout, stderr, decodes) ==
    [code |-> code, stdout |-> stdout, stderr |-> stderr, decodes |-> decodes]

\* how a script ends: its exit code, what it wrote, whether that is valid UTF-8
Exits ==
    { Exit(0, <<"{\"rows\": 3}">>, <<>>, TRUE),
      Exit(0, <<"done">>, <<>>, TRUE),
      Exit(0, <<"[[[[ ... ]]]]">>, <<>>, TRUE),
      Exit(1, <<>>, <<"failed">>, TRUE),
      Exit(0, <<>>, <<>>, FALSE) }

\* communicate() returns in time: the exit code and the output, which may not decode
ProcessExit(c, x) ==
    /\ last = NoLast
    /\ calls[c].pc = "communicating"
    /\ LET f == Frame(sem, executions, calls[c].events)
       IN IF x.decodes
          THEN Apply(c, calls[c].entry, calls[c].name, calls[c].args,
                     Returned(run_finally(Log(f, "exited")),
                              Result(x.code = 0, x.code, x.stdout, x.stderr,
                                     IF x.code = 0 THEN "" ELSE "execution")))
          ELSE Apply(c, calls[c].entry, calls[c].name, calls[c].args,
                     Returned(run_finally(Log(Log(f, "exited"), "decode_failed")),
                              Result(FALSE, -1, <<>>, DecodeError.message, "execution")))

\* wait_for raises TimeoutError: process.kill(), then the await on process.wait()
Timeout(c) ==
    /\ last = NoLast
    /\ calls[c].pc = "communicating"
    /\ Apply(c, calls[c].entry, calls[c].name, calls[c].args,
             Awaits(Log(Frame(sem, executions, calls[c].events), "kill"), "reaping"))

\* process.wait() returns: the timeout result, through the finally clause
Reaped(c) ==
    /\ last = NoLast
    /\ calls[c].pc = "reaping"
    /\ Apply(c, calls[c].entry, calls[c].name, calls[c].args,
             Returned(run_finally(Log(Frame(sem, executions, calls[c].events), "reaped")),
                      Result(FALSE, -1, <<>>,
                             <<"Script execution timed out after ", "300", " seconds">>,
                             "timeout")))

ExecIdle == sem = SemInit /\ calls = [c \in Calls |-> IdleCall] /\ last = NoLast

Init == PathIdle /\ RateIdle /\ ExecIdle /\ FnIdle /\ RegIdle

----------------------------------------------------------------------------
(* ExecutionSemaphore on its own: tasks that each acquire, hold and release once *)

\* await execution_semaphore.acquire(name), up to its return or its suspension
TaskAcquire(t) ==
    /\ calls[t].pc = "idle"
    /\ IF sem_locked(sem)
       THEN /\ sem' = sem_enqueue(sem, t)
            /\ calls' = [calls EXCEPT ![t].pc = "waiting", ![t].events = Append(@, "queued")]
       ELSE /\ sem' = sem_acquire_now(sem)
            /\ calls' = [calls EXCEPT ![t].pc = "holding", ![t].events = Append(@, "acquired")]
    /\ UNCHANGED <<last, pathVars, rateVars, fnVars, regVars>>

\* the suspended acquire is resumed once its future is set
TaskResume(t) ==
    /\ calls[t].pc = "waiting"
    /\ t \in sem.woken
    /\ sem' = sem_resume(sem, t)
    /\ calls' = [calls EXCEPT ![t].pc = "holding", ![t].events = Append(@, "acquired")]
    /\ UNCHANGED <<last, pathVars, rateVars, fnVars, regVars>>

\* execution_semaphore.release(name)
TaskRelease(t) ==
    /\ calls[t].pc = "holding"
    /\ sem' = sem_release(sem)
    /\ calls' = [calls EXCEPT ![t].pc = "done", ![t].events = Append(@, "release")]
    /\ UNCHANGED <<last, pathVars, rateVars, fnVars, regVars>>

InitSem ==
    /\ PathIdle /\ RateIdle /\ FnIdle /\ RegIdle
    /\ sem = SemInit /\ calls = [t \in Tasks |-> IdleCall] /\ last = NoLast

NextSem ==
    \/ \E t \in Tasks : TaskAcquire(t)
    \/ \E t \in Tasks : TaskResume(t)
    \/ \E t \in Tasks : TaskRelease(t)

Next ==
    \/ \E c \in Calls, name \in CallNames, args \in CallArgIds : CallTool(c, name, args)
    \/ \E c \in Calls, name \in CallNames, args \in CallArgIds : ExecuteScript(c, name, args)
    \/ Deliver
    \/ \E c \in Calls : Resume(c)
    \/ \E c \in Calls, raises \in OSErrorTypes \cup {""} : SpawnDone(c, raises)
    \/ \E c \in Calls, x \in Exits : ProcessExit(c, x)
    \/ \E c \in Calls : Timeout(c)
    \/ \E c \in Calls : Reaped(c)

vars == <<fs, p_in, p_out, now, ticks, rl_enabled, executions, rl_burst, rl_flag, rl_last,
          sem, calls, last, fn_in, fn_out, tools_map, objects, reader>>

Spec == Init /\ [][Next]_vars

\* The event loop runs every task that is ready, and the operating system
\* ends every process: a reply is delivered, a woken acquire is resumed,
\* create_subprocess_exec returns or raises, a spawned script exits or is
\* killed by the timeout, and a killed process is reaped. A step of a call
\* waits in the model while a reply is being delivered, so these steps are
\* taken when they can be taken again and again.
Fairness ==
    /\ WF_vars(Deliver)
    /\ \A c \in Calls : SF_vars(Resume(c))
    /\ \A c \in Calls : SF_vars(\E raises \in OSErrorTypes \cup {""} : SpawnDone(c, raises))
    /\ \A c \in Calls : SF_vars((\E x \in Exits : ProcessExit(c, x)) \/ Timeout(c))
    /\ \A c \in Calls : SF_vars(Reaped(c))

SpecLive == Init /\ [][Next]_vars /\ Fairness

InitPathSpec == InitPath /\ RateIdle /\ ExecIdle /\ FnIdle /\ RegIdle

SpecPath == InitPathSpec /\ [][NextPath]_vars

InitRateSpec == InitRate /\ ExecIdle /\ FnIdle /\ RegIdle

SpecRate == InitRateSpec /\ [][NextRate]_vars

SpecSem == InitSem /\ [][NextSem]_vars

----------------------------------------------------------------------------
(* What an invocation writes to the main log and to the audit log *)

\* GlobalConfig: redact_sensitive_data and sensitive_keys, at their defaults
redact_sensitive_data == TRUE

config_sensitive_keys == {}

RECURSIVE Join(_, _)
\* sep.join(parts)
Join(parts, sep) ==
    IF parts = <<>> THEN <<>>
    ELSE IF Len(parts) = 1 THEN Head(parts)
    ELSE Head(parts) \o sep \o Join(Tail(parts), sep)

RECURSIVE Repr(_)
\* repr(value), which str() of a dict or a list applies to what it holds
Repr(v) ==
    CASE v.t = "str" -> <<"'">> \o v.s \o <<"'">>
      [] v.t = "int" -> Decimal(v.n)
      [] v.t = "bool" -> IF v.b THEN <<"T", "r", "u", "e">> ELSE <<"F", "a", "l", "s", "e">>
      [] v.t = "list" -> <<"[">> \o Join([i \in 1..Len(v.elems) |-> Repr(v.elems[i])], <<",", " ">>) \o <<"]">>
      [] v.t = "dict" ->
            <<"{">> \o Join([i \in 1..Len(v.items) |->
                             <<"'">> \o v.items[i].k \o <<"'", ":", " ">> \o Repr(v.items[i].v)], <<",", " ">>)
                 \o <<"}">>
      [] OTHER -> <<"N", "o", "n", "e">>

\* str(value)
Str(v) == IF v.t = "str" THEN v.s ELSE Repr(v)

RECURSIVE sub_patterns(_, _)
\* pattern.sub("***REDACTED***", result), from position i on
sub_patterns(s, i) ==
    IF i > Len(s) THEN <<>>
    ELSE IF ssn_at(s, i) THEN REDACTED \o sub_patterns(s, i + 11)
    ELSE <<s[i]>> \o sub_patterns(s, i + 1)

\* SensitiveDataRedactor.redact_for_logging for a dict (the strings in the
\* model hold no control characters)
redact_for_logging(data, sensitive_keys) ==
    LET result == sub_patterns(Repr(DictV(redact_dict(data, sensitive_keys, "full", TRUE))), 1)
    IN IF Len(result) > 500 THEN SubSeq(result, 1, 500) \o <<".", ".", ".">> ELSE result

\* SensitiveDataRedactor.redact_for_audit for a dict
redact_for_audit(data, sensitive_keys) == redact_dict(data, sensitive_keys, "hint", TRUE)

\* key.startswith('--')
StartsWithDashes(key) == Len(key) >= 2 /\ key[1] = "-" /\ key[2] = "-"

\* the tokens _build_script_arguments appends for one remaining item
argument_tokens(key, value) ==
    IF StartsWithDashes(key) THEN << key \o <<"=">> \o Str(value) >>
    ELSE IF Len(key) = 1 THEN << <<"-">> \o key, Str(value) >>
    ELSE << <<"-", "-">> \o key \o <<"=">> \o Str(value) >>

RECURSIVE extend_all(_)
\* args.append / args.extend over filtered_args.items()
extend_all(items) ==
    IF items = <<>> THEN <<>>
    ELSE argument_tokens(Head(items).k, Head(items).v) \o extend_all(Tail(items))

\* the same with 'command' looked up before 'function'
build_script_arguments_command_first(arguments) ==
    LET function_name == IF Truthy(Get(arguments, K_command, NoneV))
                         THEN Get(arguments, K_command, NoneV)
                         ELSE Get(arguments, K_function, NoneV)
        filtered == SelectSeq(arguments, LAMBDA it : it.k \notin ReservedKeys)
    IN (IF Truthy(function_name) THEN <<Str(function_name)>> ELSE <<>>) \o extend_all(filtered)

\* ScriptExecutor._build_script_arguments
build_script_arguments(arguments) ==
    LET function_name == IF Truthy(Get(arguments, K_function, NoneV))
                         THEN Get(arguments, K_function, NoneV)
                         ELSE Get(arguments, K_command, NoneV)
        filtered == SelectSeq(arguments, LAMBDA it : it.k \notin ReservedKeys)
    IN (IF Truthy(function_name) THEN <<Str(function_name)>> ELSE <<>>) \o extend_all(filtered)

\* a record as the formatter writes it: the fixed text in pieces, and the
\* strings taken from the call that it embeds
MainRecord(text, data) ==
    [log |-> "main", event |-> "", request_id |-> "", text |-> text, data |-> data]

AuditRecord(event, request_id, tool_name, data) ==
    [log |-> "audit", event |-> event, request_id |-> request_id,
     text |-> <<tool_name>>, data |-> data]

\* call_tool, lines 94-118
start_records(name, arguments, request_id) ==
    << MainRecord(<<"[", request_id, "] Executing tool: ", name, " with args: ">>,
                  <<IF redact_sensitive_data
                    THEN redact_for_logging(arguments, config_sensitive_keys)
                    ELSE Repr(DictV(arguments))>>),
       AuditRecord("tool_execution_start", request_id, name,
                   <<Repr(DictV(redact_for_audit(arguments, config_sensitive_keys)))>>) >>

\* the paths in the errors of validate_arguments_security: sanitize_path
\* quotes the path it rejects
rejected_paths(arguments, errors) ==
    LET quoted == SelectSeq(errors, LAMBDA e : e.what = "path")
    IN [i \in 1..Len(quoted) |-> Get(arguments, quoted[i].key, NoneV).s]

\* the records of level INFO and above that the executor and the limiters
\* write for a call with this history
executor_records(name, arguments, events, request_id) ==
    <<MainRecord(<<"[", request_id, "] Executing script: ", name>>, <<>>)>>
    \o (IF Has(events, "rate_denied")
        THEN <<MainRecord(<<"[", name, "] Rate limit exceeded">>, <<>>),
               MainRecord(<<"[", request_id, "] Rate limit exceeded for ", name>>, <<>>)>>
        ELSE <<>>)
    \o (IF Has(events, "queued")
        THEN <<MainRecord(<<"[", name, "] Waiting for execution slot">>, <<>>)>>
        ELSE <<>>)
    \o (IF Has(events, "security_failed")
        THEN <<MainRecord(<<"Security validation failed for ", name, ":\n">>,
                          rejected_paths(arguments,
                              validate_arguments_security(arguments, tools_config[name],
                                                          ToolSeg(name), fs)))>>
        ELSE <<>>)
    \o (IF Has(events, "script_present")
        THEN <<MainRecord(<<"Running command: ">> \o ScriptPathText(name),
                          <<Join(build_script_arguments(arguments), <<" ">>)>>)>>
        ELSE <<>>)
    \o (IF Has(events, "raised")
        THEN <<MainRecord(<<"Error executing ", name, ": ">>
                              \o OSErrorOf("FileNotFoundError", name).message, <<>>)>>
        ELSE <<>>)

\* call_tool, lines 129-156
validation_records(name, request_id) ==
    << MainRecord(<<"[", request_id, "] Validation failed for tool ", name, ":\n">>, <<>>),
       AuditRecord("security_event", request_id, name, <<>>),
       AuditRecord("tool_execution_end", request_id, name, <<>>) >>

\* call_tool, lines 163-197
result_records(name, request_id) ==
    << AuditRecord("tool_execution_end", request_id, name, <<>>),
       MainRecord(<<"[", request_id, "] Tool execution completed: ", name>>, <<>>) >>

\* call_tool, lines 264-303, with SafeErrorFormatter.log_error
exception_records(name, e, request_id) ==
    << MainRecord(<<"Tool execution error: ", e.type, ": ">> \o e.message, <<>>),
       AuditRecord("security_event", request_id, name, <<>>),
       AuditRecord("tool_execution_end", request_id, name, <<>>) >>

\* every record an invocation that has returned wrote, in order
records_of(inv) ==
    IF inv.entry = "call_tool"
    THEN start_records(inv.name, ArgMaps[inv.args], RequestId)
         \o (IF ~inv.called_executor THEN validation_records(inv.name, RequestId)
             ELSE executor_records(inv.name, ArgMaps[inv.args], inv.events, RequestId)
                  \o (IF inv.raised # NoExc
                      THEN exception_records(inv.name, inv.raised, RequestId)
                      ELSE result_records(inv.name, RequestId)
                           \o (IF parse_raises(inv.result)
                               THEN exception_records(inv.name, TooDeep, RequestId)
                               ELSE <<>>)))
    ELSE executor_records(inv.name, ArgMaps[inv.args], inv.events, "unknown")

----------------------------------------------------------------------------
(* Functions called on their own: SafeErrorFormatter.format_error *)

\* the exception types format_error is called with; the last has no safe message
ErrorTypes ==
    {"FileNotFoundError", "PermissionError", "OSError", "UnicodeDecodeError",
     "ToolExecutionError"}

\* str(e) of the exceptions, cut where a path or a file name begins and ends
ErrorMessages ==
    { <<>>,
      <<"boom">>,
      <<"[Errno 2] No such file or directory: '", "/Users/alice", "/secret/",
        "passwords.txt", "'">>,
      <<"[Errno 13] Permission denied: '", "/etc/shadow", "'">> }

FormatInputs ==
    [fn : {"format_error"}, type : ErrorTypes, message : ErrorMessages,
     other : ErrorMessages, tool_name : CallNames \cup {""}, request_id : {"", RequestId}]

\* format_error on two exceptions of one type, with the same tool name and request id
FormatError ==
    /\ fn_in.fn = "format_error"
    /\ fn_out = NotApplied
    /\ fn_out' = [done |-> TRUE,
                  text |-> format_error(Exc(fn_in.type, fn_in.message),
                                        fn_in.tool_name, fn_in.request_id),
                  other |-> format_error(Exc(fn_in.type, fn_in.other),
                                         fn_in.tool_name, fn_in.request_id)]
    /\ UNCHANGED <<fn_in, pathVars, rateVars, execVars, regVars>>

----------------------------------------------------------------------------
(* Functions called on their own: SensitiveDataRedactor.redact_dict *)

\* how deep the values of the dictionaries given to redact_dict nest
MaxDepth == 3


\* keys of the data: one that holds a sensitive word in mixed case, a plain
\* one, and one only the caller declares sensitive
K_PassWord == <<"P", "a", "s", "s", "W", "o", "r", "d">>
K_note == <<"n", "o", "t", "e">>
K_PetName == <<"P", "e", "t", "N", "a", "m", "e">>

DataKeys == {K_PassWord, K_note, K_PetName}

\* the sensitive_keys a caller passes
CallerKeys == { {}, {<<"p", "e", "t", "n", "a", "m", "e">>}, {K_PetName} }

Secret12 == <<"a", "b", "c", "1", "2", "3", "x", "y", "z", "7", "8", "9">>

\* values stored under a sensitive key
SecretValues ==
    { <<>>, <<"a", "b", "c">>, K_password, <<"a", "b", "c", "*", "*", "*", "x", "y", "z">>, Secret12, <<"a", "b", "c", "9", "9", "9", "9", "9", "9", "7", "8", "9">> }

SsnText == <<"1", "2", "3", "-", "4", "5", "-", "6", "7", "8", "9">>

Scalars == {StrV(Secret12), StrV(SsnText), IntV(7)}

RECURSIVE JsonValues(_)
\* the values that nest at most d containers deep
JsonValues(d) ==
    IF d = 0 THEN Scalars
    ELSE Scalars \cup { ListV(<<v>>) : v \in JsonValues(d - 1) }
                 \cup { DictV(<<Item(k, v)>>) : k \in DataKeys, v \in JsonValues(d - 1) }

FlatData == { <<Item(k, StrV(v))>> : k \in {K_password, <<"A", "P", "I", "_", "K", "E", "Y">>}, v \in SecretValues }

NestedData == { <<Item(k, v)>> : k \in DataKeys, v \in JsonValues(MaxDepth) }

RedactionStyles == {"full", "partial", "hint"}

RedactInputs ==
    [fn : {"redact_dict"}, data : FlatData \cup NestedData, sensitive_keys : CallerKeys,
     redaction_style : RedactionStyles, scan_values : BOOLEAN]

RedactDict ==
    /\ fn_in.fn = "redact_dict"
    /\ fn_out = NotApplied
    /\ fn_out' = [done |-> TRUE,
                  data |-> redact_dict(fn_in.data, fn_in.sensitive_keys,
                                       fn_in.redaction_style, fn_in.scan_values)]
    /\ UNCHANGED <<fn_in, pathVars, rateVars, execVars, regVars>>

(* Functions called on their own: ScriptExecutor.execute_script_structured *)

ExecInputs ==
    { [fn |-> "execute_script_structured", name |-> n, args |-> a] :
        n \in CallNames, a \in ArgIds }

\* execute_script_structured on an executor that runs nothing else and finds
\* the script in place, from its entry to the await on create_subprocess_exec
ExecuteOnIdle ==
    /\ fn_in.fn = "execute_script_structured"
    /\ fn_out = NotApplied
    /\ LET out == execute_script_structured(Frame(sem, executions, <<>>), 1,
                                            fn_in.name, fn_in.args)
           end == IF out.how = "admitted"
                  THEN after_acquire(out.f, fn_in.name, fn_in.args, "present")
                  ELSE out
       IN fn_out' = [done |-> TRUE, how |-> end.how, result |-> end.result,
                     events |-> end.f.events]
    /\ UNCHANGED <<fn_in, pathVars, rateVars, execVars, regVars>>

----------------------------------------------------------------------------
(* Functions called on their own: validate_arguments_security *)

\* the most arguments a call carries
MaxArgs == 2

K_name == <<"n", "a", "m", "e">>
K_outfile == <<"o", "u", "t", "f", "i", "l", "e">>
K_bad == <<"a", " ", "b">>
K_badpath == <<"m", "y", " ", "p", "a", "t", "h">>

\* a configured max_string_length that 'IGNORE' fits and Long exceeds
ShortLimit == 6

Long == <<"a", "b", "c", "d", "e", "f", "g", "h">>

StringValues == { StrV(<<"o", "k">>), StrV(<<"I", "G", "N", "O", "R", "E">>), StrV(<<"a", NUL>>), StrV(Long) }

PathValues == { StrV(<<"a">>), StrV(<<".", ".", "/", "a">>), StrV(<<"/", "a">>), StrV(<<>>) }

\* what a caller may send as one argument
ArgItems ==
    { Item(k, v) : k \in {K_note, K_name},
                   v \in StringValues \cup {IntV(7), ListV(<<StrV(<<"I", "G", "N", "O", "R", "E">>)>>)} }
    \cup { Item(k, v) : k \in {K_path, K_outfile}, v \in PathValues \cup {IntV(7)} }
    \cup { Item(K_bad, StrV(<<"o", "k">>)), Item(K_badpath, StrV(<<".", ".", "/", "a">>)),
           Item(K_confirm, BoolV(TRUE)),
           Item(K_command, StrV(<<"I", "G", "N", "O", "R", "E">>)) }

DistinctKeys(m) == \A i, j \in 1..Len(m) : m[i].k = m[j].k => i = j

ArgumentMaps ==
    { m \in UNION { [1..n -> ArgItems] : n \in 0..MaxArgs } : DistinctKeys(m) }

\* WorkspaceConfig: the policy switches this check depends on
WorkspaceConfigs ==
    { [DefaultWorkspace EXCEPT !.check_prompt_injection = c, !.max_string_length = m] :
        c \in BOOLEAN, m \in {0, ShortLimit} }

ValidateInputs ==
    { [fn |-> "validate_arguments_security", arguments |-> m, workspace_config |-> w] :
        m \in ArgumentMaps, w \in WorkspaceConfigs }

\* validate_arguments_security(arguments, script_config, tools_dir, tool_name)
\* for tool t_ok, on a tree without symlinks
ValidateArguments ==
    /\ fn_in.fn = "validate_arguments_security"
    /\ fn_out = NotApplied
    /\ fn_out' = [done |-> TRUE,
                  errors |-> validate_arguments_security(
                                 fn_in.arguments,
                                 [workspace_config |-> fn_in.workspace_config],
                                 ToolSeg("t_ok"), NoLinks)]
    /\ UNCHANGED <<fn_in, pathVars, rateVars, execVars, regVars>>

----------------------------------------------------------------------------
(* Functions called on their own: ScriptDiscovery.get_available_tools *)

\* the most parameters a script declares
MaxParams == 2

\* properties[param_name] = ...: a new key goes last, a known key keeps its place
Put(m, k, v) ==
    IF HasKey(m, k) THEN [i \in 1..Len(m) |-> IF m[i].k = k THEN Item(k, v) ELSE m[i]]
    ELSE Append(m, Item(k, v))

RECURSIVE add_parameters(_, _, _)
\* get_available_tools, lines 585-593: the loop over config.parameters
add_parameters(parameters, properties, required) ==
    IF parameters = <<>> THEN [properties |-> properties, required |-> required]
    ELSE LET param == Head(parameters)
             param_name == Get(param, "name", "value")
         IN add_parameters(Tail(parameters),
                           Put(properties, param_name, [type |-> Get(param, "type", "string")]),
                           IF Get(param, "required", FALSE)
                           THEN Append(required, param_name) ELSE required)

\* get_available_tools, lines 571-603: the inputSchema of one tool
input_schema(config) ==
    add_parameters(config.parameters,
                   <<Item("confirm", [type |-> "boolean"])>>,
                   IF config.requires_confirmation THEN <<"confirm">> ELSE <<>>)

\* ScriptDiscovery.get_available_tools over self._discovered_scripts
get_available_tools(discovered) ==
    LET enabled == SelectSeq(discovered, LAMBDA script : script.config.enabled)
    IN [i \in 1..Len(enabled) |->
           [name |-> enabled[i].name, inputSchema |-> input_schema(enabled[i].config)]]

\* a declared parameter, as _detect_shell_parameters or tools.json gives it:
\* VAR=$n declares the parameter var, a bare $n the parameter argn
Params ==
    { <<Item("name", n), Item("type", "string"), Item("required", r)>> :
        n \in {"confirm", "file"}, r \in BOOLEAN }
    \cup { <<Item("name", "count"), Item("type", "number")>>, <<Item("required", TRUE)>> }

ParamLists == UNION { [1..n -> Params] : n \in 0..MaxParams }

ToolConfig(enabled, requires_confirmation, parameters) ==
    [enabled |-> enabled, requires_confirmation |-> requires_confirmation,
     parameters |-> parameters]

\* the discovered scripts: a tool with any declared parameters, after it
\* possibly one without any
DiscoveredScripts ==
    { <<[name |-> "t_a", config |-> ToolConfig(e, c, ps)]>> \o rest :
        e \in BOOLEAN, c \in BOOLEAN, ps \in ParamLists,
        rest \in {<<>>} \cup { <<[name |-> "t_b", config |-> ToolConfig(e2, c2, <<>>)]>> :
                                  e2 \in BOOLEAN, c2 \in BOOLEAN } }

ToolsInputs == { [fn |-> "get_available_tools", discovered |-> d] : d \in DiscoveredScripts }

GetAvailableTools ==
    /\ fn_in.fn = "get_available_tools"
    /\ fn_out = NotApplied
    /\ fn_out' = [done |-> TRUE, tools |-> get_available_tools(fn_in.discovered)]
    /\ UNCHANGED <<fn_in, pathVars, rateVars, execVars, regVars>>

----------------------------------------------------------------------------
(* Functions called on their own: to_string and the reply for an output *)

\* the longest output a script prints
MaxOut == 4

\* the nesting json.loads follows before it raises RecursionError: the
\* interpreter's recursion limit, scaled to the outputs above
RecursionLimit == 1

RECURSIVE parse_value(_, _, _), parse_elements(_, _, _), skip_digits(_, _)
skip_digits(s, i) == IF i <= Len(s) /\ s[i] \in Digits THEN skip_digits(s, i + 1) ELSE i

\* the JSON scanner on numbers and arrays: the index after the value that
\* starts at i, 0 when there is none, -1 when the nesting is too deep
parse_value(s, i, depth) ==
    IF i > Len(s) THEN 0
    ELSE IF s[i] \in Digits THEN skip_digits(s, i)
    ELSE IF s[i] = "["
    THEN IF depth >= RecursionLimit THEN -1
         ELSE IF i + 1 <= Len(s) /\ s[i + 1] = "]" THEN i + 2
         ELSE parse_elements(s, i + 1, depth + 1)
    ELSE 0

parse_elements(s, i, depth) ==
    LET n == parse_value(s, i, depth)
    IN IF n <= 0 THEN n
       ELSE IF n > Len(s) THEN 0
       ELSE IF s[n] = "]" THEN n + 1
       ELSE IF s[n] = "," THEN parse_elements(s, n + 1, depth)
       ELSE 0

\* json.loads(s): it returns, raises JSONDecodeError, or raises RecursionError
json_loads(s) ==
    LET n == parse_value(s, 1, 0)
    IN IF n = -1 THEN "recursion" ELSE IF n = Len(s) + 1 THEN "ok" ELSE "invalid"

truncation_marker(max_length) ==
    <<"\n", "\n">> \o <<"[", "O", "u", "t", "p", "u", "t", " ", "t", "r", "u", "n", "c", "a", "t", "e", "d", " ", "a", "t", " ">> \o Decimal(max_length) \o <<" ", "c", "h", "a", "r", "a", "c", "t", "e", "r", "s", "]">>

truncate_without_marker(stdout, max_length) ==
    IF max_length # 0 /\ Len(stdout) > max_length THEN SubSeq(stdout, 1, max_length)
    ELSE stdout

\* ToolExecutionResult.to_string(max_length) of a successful result
truncate(stdout, max_length) ==
    IF max_length # 0 /\ Len(stdout) > max_length
    THEN SubSeq(stdout, 1, max_length) \o truncation_marker(max_length)
    ELSE stdout

\* call_tool, lines 200-231 and 264-305: the reply for a successful result
reply_for_output(stdout, max_output_length, name) ==
    LET output == truncate(stdout, max_output_length)
        parsed == json_loads(output)
    IN IF parsed = "ok" THEN Reply(TRUE, "success", "json", output)
       ELSE IF parsed = "invalid" THEN Reply(FALSE, "", "text", output)
       ELSE reply_for_exception(TooDeep, name, RequestId)

OutputChars == {"[", "]", "1", ","}

Outputs == UNION { [1..n -> OutputChars] : n \in 0..MaxOut }

\* GlobalConfig.max_output_length; 0 makes to_string skip the truncation
OutputLimits == {0, 2, 3}

OutputInputs ==
    { [fn |-> "reply_for_output", stdout |-> s, max_output_length |-> m] :
        s \in Outputs, m \in OutputLimits }

ReplyForOutput ==
    /\ fn_in.fn = "reply_for_output"
    /\ fn_out = NotApplied
    /\ fn_out' = [done |-> TRUE,
                  output |-> truncate(fn_in.stdout, fn_in.max_output_length),
                  reply |-> reply_for_output(fn_in.stdout, fn_in.max_output_length, "t_ok")]
    /\ UNCHANGED <<fn_in, pathVars, rateVars, execVars, regVars>>

----------------------------------------------------------------------------
(* Functions called on their own: ScriptDiscovery._generate_script_name *)

\* the longest run of free characters in a script's path
MaxStem == 2

HasSuffix(s, suffix) ==
    Len(suffix) <= Len(s) /\ SubSeq(s, Len(s) - Len(suffix) + 1, Len(s)) = suffix

DropSuffix(s, suffix) == SubSeq(s, 1, Len(s) - Len(suffix))

extensions_to_remove == <<<<".", "s", "h">>, <<".", "b", "a", "s", "h">>, <<".", "z", "s", "h">>, <<".", "f", "i", "s", "h">>, <<".", "p", "s", "1">>>>

RECURSIVE remove_first_extension(_, _)
\* for ext in extensions_to_remove: if name.endswith(ext): cut it; break
remove_first_extension(name, exts) ==
    IF exts = <<>> THEN name
    ELSE IF HasSuffix(name, Head(exts)) THEN DropSuffix(name, Head(exts))
    ELSE remove_first_extension(name, Tail(exts))

IsLetter(ch) == \E i \in 1..Len(LowerCase) : LowerCase[i] = ch \/ UpperCase[i] = ch

\* the steps of _generate_script_name up to the prefix
name_stem(relative_path) ==
    LET flat == [i \in 1..Len(relative_path) |->
                    IF relative_path[i] \in {"/", "\\"} THEN "_" ELSE relative_path[i]]
        no_py == IF HasSuffix(flat, <<".", "p", "y">>) THEN DropSuffix(flat, <<".", "p", "y">>) ELSE flat
        no_ext == remove_first_extension(no_py, extensions_to_remove)
    IN [i \in 1..Len(no_ext) |-> IF IdentChar(no_ext[i]) THEN no_ext[i] ELSE "_"]

with_prefix(name) ==
    IF name # <<>> /\ ~IsLetter(name[1]) THEN <<"t", "o", "o", "l", "_">> \o name ELSE name

generate_script_name_cut_first(relative_path) ==
    LET stem == name_stem(relative_path)
        cut == IF Len(stem) > MAX_IDENTIFIER_LENGTH
               THEN SubSeq(stem, 1, MAX_IDENTIFIER_LENGTH) ELSE stem
        name == with_prefix(cut)
    IN IF name = <<>> THEN <<"u", "n", "n", "a", "m", "e", "d", "_", "t", "o", "o", "l">> ELSE name

\* ScriptDiscovery._generate_script_name(relative_path)
generate_script_name(relative_path) ==
    LET prefixed == with_prefix(name_stem(relative_path))
        name == IF Len(prefixed) > MAX_IDENTIFIER_LENGTH
                THEN SubSeq(prefixed, 1, MAX_IDENTIFIER_LENGTH) ELSE prefixed
    IN IF name = <<>> THEN <<"u", "n", "n", "a", "m", "e", "d", "_", "t", "o", "o", "l">> ELSE name

Repeat(ch, n) == [i \in 1..n |-> ch]

\* relative paths of scripts: nothing or a long directory name, then a few
\* free characters, then an extension or two
PathChars == {"a", "Z", "9", "/", ".", " ", "-"}

PathStems == UNION { [1..n -> PathChars] : n \in 0..MaxStem }

ScriptPaths ==
    { long \o stem \o ext :
        long \in {<<>>, Repeat("a", MAX_IDENTIFIER_LENGTH), Repeat("9", MAX_IDENTIFIER_LENGTH - 4)},
        stem \in PathStems,
        ext \in {<<>>, <<".", "p", "y">>, <<".", "s", "h">>, <<".", "s", "h", ".", "p", "y">>, <<".", "z", "s", "h", ".", "s", "h">>} }

NameInputs == { [fn |-> "generate_script_name", relative_path |-> p] : p \in ScriptPaths }

GenerateScriptName ==
    /\ fn_in.fn = "generate_script_name"
    /\ fn_out = NotApplied
    /\ fn_out' = [done |-> TRUE, name |-> generate_script_name(fn_in.relative_path)]
    /\ UNCHANGED <<fn_in, pathVars, rateVars, execVars, regVars>>

----------------------------------------------------------------------------
(* Functions called on their own: ScriptDiscovery._full_discovery *)

\* a ScriptConfig: the fields discovery reads or writes
ScriptConfig(enabled, script_type, description, parameters, examples, interactive) ==
    [exists |-> TRUE, enabled |-> enabled, script_type |-> script_type,
     description |-> description, parameters |-> parameters, examples |-> examples,
     interactive |-> interactive]

\* what _extract_python_metadata or _extract_shell_metadata found in a script
Metadata(description, parameters, examples, interactive) ==
    [description |-> description, parameters |-> parameters, examples |-> examples,
     interactive |-> interactive]

\* Config.create_default_script_config, which also stores the new entry
create_default_script_config(script_type, metadata) ==
    ScriptConfig(TRUE, script_type,
                 IF metadata.description # "" THEN metadata.description
                 ELSE "Auto-discovered script",
                 metadata.parameters, metadata.examples, metadata.interactive)

\* _analyze_python_script: the registry afterwards
analyze_python_script(registry, script) ==
    LET existing_config == registry[script.name]
    IN IF existing_config.exists /\ ~existing_config.enabled THEN registry
       ELSE IF existing_config.exists
       THEN [registry EXCEPT ![script.name].description =
                IF @ = "" /\ script.metadata.description # ""
                THEN script.metadata.description ELSE @]
       ELSE [registry EXCEPT ![script.name] =
                create_default_script_config("python", script.metadata)]

analyze_shell_script_ignoring_flag(registry, script) ==
    LET existing_config == registry[script.name]
        metadata == script.metadata
    IN IF existing_config.exists
       THEN [registry EXCEPT ![script.name] =
                [existing_config EXCEPT
                    !.description = IF @ = "" /\ metadata.description # ""
                                    THEN metadata.description ELSE @,
                    !.parameters = IF metadata.parameters # <<>> THEN metadata.parameters ELSE @,
                    !.interactive = metadata.interactive,
                    !.examples = IF metadata.examples # <<>> THEN metadata.examples ELSE @]]
       ELSE [registry EXCEPT ![script.name] =
                create_default_script_config("shell", metadata)]

\* _analyze_shell_script: the registry afterwards
analyze_shell_script(registry, script) ==
    LET existing_config == registry[script.name]
        metadata == script.metadata
    IN IF existing_config.exists /\ ~existing_config.enabled THEN registry
       ELSE IF existing_config.exists
       THEN [registry EXCEPT ![script.name] =
                [existing_config EXCEPT
                    !.description = IF @ = "" /\ metadata.description # ""
                                    THEN metadata.description ELSE @,
                    !.parameters = IF metadata.parameters # <<>> THEN metadata.parameters ELSE @,
                    !.interactive = metadata.interactive,
                    !.examples = IF metadata.examples # <<>> THEN metadata.examples ELSE @]]
       ELSE [registry EXCEPT ![script.name] =
                create_default_script_config("shell", metadata)]

RECURSIVE analyze_all(_, _)
\* _full_discovery, lines 89-94: the Python scripts, then the shell scripts
analyze_all(registry, scripts) ==
    IF scripts = <<>> THEN registry
    ELSE analyze_all(IF Head(scripts).script_type = "python"
                     THEN analyze_python_script(registry, Head(scripts))
                     ELSE analyze_shell_script(registry, Head(scripts)),
                     Tail(scripts))

full_discovery(registry, scripts) ==
    analyze_all(registry,
                SelectSeq(scripts, LAMBDA s : s.script_type = "python")
                    \o SelectSeq(scripts, LAMBDA s : s.script_type = "shell"))

ScriptTypes == {"python", "shell"}

Descriptions == {"", "set by the user"}
ParameterLists == {<<>>, <<"p_user">>}
ExampleLists == {<<>>, <<"e_user">>}

ExistingConfigs ==
    { ScriptConfig(e, "shell", d, p, x, i) :
        e \in BOOLEAN, d \in Descriptions, p \in ParameterLists, x \in ExampleLists,
        i \in BOOLEAN }

FoundMetadata ==
    { Metadata(d, p, x, i) :
        d \in {"", "from the script"}, p \in {<<>>, <<"p_found">>},
        x \in {<<>>, <<"e_found">>}, i \in BOOLEAN }

\* the registry before a run: any entry or none for t_a, and for t_b none,
\* a disabled one or an enabled one
Registries ==
    { [n \in RegistryNames |-> IF n = "t_a" THEN a ELSE b] :
        a \in ExistingConfigs \cup {NoConfig},
        b \in { NoConfig,
                ScriptConfig(FALSE, "python", "set by the user", <<"p_user">>, <<>>, TRUE),
                ScriptConfig(TRUE, "python", "set by the user", <<>>, <<>>, FALSE) } }

\* the scripts a scan finds: one that generates the name t_a, and possibly a
\* Python script that generates the name t_b
FoundScripts ==
    { <<[name |-> "t_a", script_type |-> t, metadata |-> m]>> \o rest :
        t \in ScriptTypes, m \in FoundMetadata,
        rest \in { <<>>,
                   <<[name |-> "t_b", script_type |-> "python",
                      metadata |-> Metadata("from the script", <<"p_found">>, <<>>, FALSE)]>> } }

DiscoveryInputs ==
    { [fn |-> "full_discovery", registry |-> r, scripts |-> s] :
        r \in Registries, s \in FoundScripts }

FullDiscovery ==
    /\ fn_in.fn = "full_discovery"
    /\ fn_out = NotApplied
    /\ fn_out' = [done |-> TRUE, registry |-> full_discovery(fn_in.registry, fn_in.scripts)]
    /\ UNCHANGED <<fn_in, pathVars, rateVars, execVars, regVars>>

----------------------------------------------------------------------------
(* Functions called on their own: ScriptDiscovery.discover_scripts *)

\* the most files below the tools directory
MaxFiles == 2

\* _has_file_changes_since stops a scan after an item more than this many
\* levels below the tools directory
MaxScanDepth == 3

\* an item of the tree: a Python script, an executable file that is no Python
\* script, or anything else (a directory, a data file); how many levels below
\* the tools directory it lies; whether it was modified after the last
\* discovery
FileEntry(kind, depth, newer) == [kind |-> kind, depth |-> depth, newer |-> newer]

\* _full_discovery would look at this file
IsCandidate(item) == item.kind \in {"py", "sh"}

\* the first loop: rglob("*.py") and st_mtime > last_discovery_time
python_changes(files) ==
    \E i \in 1..Len(files) : files[i].kind = "py" /\ files[i].newer

RECURSIVE shell_changes(_)
\* the second loop, over rglob("*") in the order the directory walk gives:
\* a modified executable ends it with True, an item that lies too deep ends it
shell_changes(files) ==
    IF files = <<>> THEN FALSE
    ELSE IF Head(files).kind = "sh" /\ Head(files).newer THEN TRUE
    ELSE IF Head(files).depth > MaxScanDepth THEN FALSE
    ELSE shell_changes(Tail(files))

\* _has_file_changes_since: an exception while scanning counts as a change
has_file_changes_since(files, scan_raises) ==
    IF scan_raises THEN TRUE ELSE python_changes(files) \/ shell_changes(files)

\* _load_existing_configurations: True iff some configured script exists
load_existing_configurations(registry) == registry = "loaded"

\* _get_last_discovery_time returns a number
timestamp_read(timestamp) == timestamp = "readable"

\* _try_incremental_discovery
try_incremental_discovery(registry, timestamp, files, scan_raises) ==
    IF ~load_existing_configurations(registry) THEN FALSE
    ELSE IF ~timestamp_read(timestamp) THEN FALSE
    ELSE ~has_file_changes_since(files, scan_raises)

\* discover_scripts(force_full): which kind of discovery it performs
discover_scripts(force_full, registry, timestamp, files, scan_raises) ==
    IF ~force_full /\ try_incremental_discovery(registry, timestamp, files, scan_raises)
    THEN "incremental"
    ELSE "full"

FileEntries ==
    { FileEntry(k, d, n) : k \in {"py", "sh"}, d \in {2, MaxScanDepth + 1}, n \in BOOLEAN }
    \cup { FileEntry("other", d, FALSE) : d \in {2, MaxScanDepth + 1} }

\* the files of one tool's directory, in the order rglob yields them
Trees == UNION { [1..n -> FileEntries] : n \in 0..MaxFiles }

\* tools.json: unreadable, without entries, with entries whose scripts are
\* all gone, with an entry whose script exists
RegistryStates == {"raises", "empty", "scripts_gone", "loaded"}

TimestampStates == {"missing", "unreadable", "readable"}

IncrementalInputs ==
    { [fn |-> "discover_scripts", force_full |-> f, registry |-> r, timestamp |-> t,
       files |-> fl, scan_raises |-> x] :
        f \in BOOLEAN, r \in RegistryStates, t \in TimestampStates, fl \in Trees,
        x \in BOOLEAN }

DiscoverScripts ==
    /\ fn_in.fn = "discover_scripts"
    /\ fn_out = NotApplied
    /\ fn_out' = [done |-> TRUE,
                  mode |-> discover_scripts(fn_in.force_full, fn_in.registry,
                                            fn_in.timestamp, fn_in.files, fn_in.scan_raises)]
    /\ UNCHANGED <<fn_in, pathVars, rateVars, execVars, regVars>>

----------------------------------------------------------------------------
(* Functions called on their own: ScriptExecutor._build_script_arguments *)

\* the most items of an argument map
MaxBuildArgs == 3

K_short == <<"n">>
K_dashed == <<"-", "-", "v">>

BuildKeys == {K_function, K_command, K_confirm, K_short, K_dashed, K_name}

BuildValues == {StrV(<<>>), StrV(<<"x">>), StrV(<<"y">>)}

BuildMaps ==
    { m \in UNION { [1..n -> { Item(k, v) : k \in BuildKeys, v \in BuildValues }] :
                      n \in 0..MaxBuildArgs } : DistinctKeys(m) }

BuildInputs == { [fn |-> "build_script_arguments", arguments |-> m] : m \in BuildMaps }

BuildScriptArguments ==
    /\ fn_in.fn = "build_script_arguments"
    /\ fn_out = NotApplied
    /\ fn_out' = [done |-> TRUE, args |-> build_script_arguments(fn_in.arguments)]
    /\ UNCHANGED <<fn_in, pathVars, rateVars, execVars, regVars>>

----------------------------------------------------------------------------
(* Functions called on their own: InputSanitizer.sanitize_identifier *)

\* the most characters of a short identifier
MaxIdent == 3

\* a letter, a hyphen, a path separator, a shell metacharacter, a newline
IdentifierChars == {"a", "-", "/", ";", "\n"}

\* short strings, and strings around the length limit
Identifiers ==
    UNION { [1..n -> IdentifierChars] : n \in 0..MaxIdent }
    \cup { Repeat("a", n) : n \in {MAX_IDENTIFIER_LENGTH, MAX_IDENTIFIER_LENGTH + 1} }
    \cup { Repeat("a", n) \o <<"\n">> :
             n \in {MAX_IDENTIFIER_LENGTH - 1, MAX_IDENTIFIER_LENGTH} }

IdentifierInputs == { [fn |-> "sanitize_identifier", name |-> n] : n \in Identifiers }

SanitizeIdentifier ==
    /\ fn_in.fn = "sanitize_identifier"
    /\ fn_out = NotApplied
    /\ fn_out' = [done |-> TRUE, error |-> sanitize_identifier(fn_in.name)]
    /\ UNCHANGED <<fn_in, pathVars, rateVars, execVars, regVars>>

----------------------------------------------------------------------------
(* Functions called on their own: the allowed bases of a tool *)

\* the most entries of allowed_paths
MaxAllowed == 2

PathTemplates ==
    { [var |-> "TOOL_DIR", rest |-> <<workspace_seg>>],
      [var |-> "HOME", rest |-> <<>>],
      [var |-> "TEMP", rest |-> <<>>] }

AllowedPathLists == UNION { [1..n -> PathTemplates] : n \in 0..MaxAllowed }

BasesTools == {"t_ok", "t_conf"}

BasesInputs ==
    { [fn |-> "build_allowed_paths",
       workspace_config |-> [DefaultWorkspace EXCEPT !.allowed_paths = a,
                                                     !.create_workspace = c],
       tool_name |-> ToolSeg(n),
       existing |-> { ExpandTemplate(t, ToolSeg(n)) : t \in e }] :
        a \in AllowedPathLists, c \in BOOLEAN, n \in BasesTools, e \in SUBSET PathTemplates }

BuildAllowedPaths ==
    /\ fn_in.fn = "build_allowed_paths"
    /\ fn_out = NotApplied
    /\ fn_out' = [done |-> TRUE,
                  allowed_paths |-> build_allowed_paths(fn_in.workspace_config,
                                                        fn_in.tool_name, fn_in.existing)]
    /\ UNCHANGED <<fn_in, pathVars, rateVars, execVars, regVars>>

----------------------------------------------------------------------------
(* Functions called on their own: the names a full discovery registers *)

\* the most characters of a candidate's path before its extension
MaxPairStem == 3

PairChars == {"a", "/", "_"}

\* relative paths of files: no empty directory or file name
CandidateStems ==
    { st \in UNION { [1..n -> PairChars] : n \in 1..MaxPairStem } :
        /\ st[1] # "/" /\ st[Len(st)] # "/"
        /\ \A i \in 1..(Len(st) - 1) : ~(st[i] = "/" /\ st[i + 1] = "/") }

\* candidate scripts: a Python file, or an executable shell file
Candidates ==
    { [path |-> st \o <<".", "p", "y">>, script_type |-> "python"] : st \in CandidateStems }
    \cup { [path |-> st \o <<".", "s", "h">>, script_type |-> "shell"] : st \in CandidateStems }

\* two distinct candidate files, in the order the scan lists them
CandidatePairs == { pair \in [1..2 -> Candidates] : pair[1].path # pair[2].path }

RegisterInputs == { [fn |-> "register_scripts", scripts |-> pair] : pair \in CandidatePairs }

\* _analyze_python_script and _analyze_shell_script on the name and the
\* script_path of the entry: an entry found under the generated name is kept
\* and updated, otherwise create_default_script_config stores a new one
register(entries, script) ==
    LET script_name == generate_script_name(script.path)
    IN IF \E i \in 1..Len(entries) : entries[i].name = script_name
       THEN entries
       ELSE Append(entries, [name |-> script_name, script_path |-> script.path,
                             script_type |-> script.script_type])

RECURSIVE register_all(_, _)
register_all(entries, scripts) ==
    IF scripts = <<>> THEN entries
    ELSE register_all(register(entries, Head(scripts)), Tail(scripts))

\* _full_discovery on an empty registry: the Python scripts, then the shell scripts
register_scripts(scripts) ==
    register_all(<<>>, SelectSeq(scripts, LAMBDA sc : sc.script_type = "python")
                           \o SelectSeq(scripts, LAMBDA sc : sc.script_type = "shell"))

RegisterScripts ==
    /\ fn_in.fn = "register_scripts"
    /\ fn_out = NotApplied
    /\ fn_out' = [done |-> TRUE,
                  names |-> [i \in 1..Len(fn_in.scripts) |->
                                generate_script_name(fn_in.scripts[i].path)],
                  registry |-> register_scripts(fn_in.scripts)]
    /\ UNCHANGED <<fn_in, pathVars, rateVars, execVars, regVars>>

----------------------------------------------------------------------------
(* Functions called on their own: the command line of a validated call *)

\* the most items of an argument map that goes to the command line
MaxSpawnArgs == 2

\* what a caller may send: the arguments of the validator's check, and a
\* sub-command under 'function' or 'command'
SpawnItems ==
    { Item(K_note, v) : v \in {StrV(<<"o", "k">>), StrV(<<"a", NUL>>), IntV(7)} }
    \cup { Item(K_path, v) : v \in {StrV(<<"a">>), StrV(<<".", ".", "/", "a">>)} }
    \cup { Item(K_bad, StrV(<<"o", "k">>)), Item(K_confirm, BoolV(TRUE)) }
    \cup { Item(k, v) : k \in {K_function, K_command},
                        v \in {StrV(<<"o", "k">>), StrV(<<"a", NUL>>), StrV(<<>>)} }

SpawnMaps ==
    { m \in UNION { [1..n -> SpawnItems] : n \in 0..MaxSpawnArgs } : DistinctKeys(m) }

SpawnInputs == { [fn |-> "shell_command_line", arguments |-> m] : m \in SpawnMaps }

\* execute_script_structured from the security validation to the command of
\* _execute_shell_script, for tool t_ok with the default workspace policy: no
\* command when the validation reports errors, otherwise the arguments
\* _build_script_arguments makes of the same map
ShellCommandLine ==
    /\ fn_in.fn = "shell_command_line"
    /\ fn_out = NotApplied
    /\ LET errors == validate_arguments_security(
                         fn_in.arguments, [workspace_config |-> DefaultWorkspace],
                         ToolSeg("t_ok"), NoLinks)
       IN fn_out' = [done |-> TRUE,
                     spawned |-> errors = <<>>,
                     security_errors |-> errors,
                     args |-> IF errors = <<>>
                              THEN build_script_arguments(fn_in.arguments) ELSE <<>>]
    /\ UNCHANGED <<fn_in, pathVars, rateVars, execVars, regVars>>

----------------------------------------------------------------------------
FnInputs ==
    FormatInputs \cup RedactInputs \cup ExecInputs \cup ValidateInputs \cup ToolsInputs
        \cup OutputInputs \cup NameInputs \cup DiscoveryInputs \cup IncrementalInputs
        \cup BuildInputs \cup IdentifierInputs \cup BasesInputs \cup SpawnInputs
        \cup RegisterInputs

InitFn == fn_in \in FnInputs /\ fn_out = NotApplied

NextFn ==
    \/ FormatError
    \/ RedactDict
    \/ ExecuteOnIdle
    \/ ValidateArguments
    \/ GetAvailableTools
    \/ ReplyForOutput
    \/ GenerateScriptName
    \/ FullDiscovery
    \/ DiscoverScripts
    \/ BuildScriptArguments
    \/ SanitizeIdentifier
    \/ BuildAllowedPaths
    \/ ShellCommandLine
    \/ RegisterScripts

InitFnSpec == InitFn /\ PathIdle /\ RateIdle /\ ExecIdle /\ RegIdle

SpecFn == InitFnSpec /\ [][NextFn]_vars

----------------------------------------------------------------------------
(* Config's registry of tools, its readers and its writers *)

\* the entries tools.json may hold for a tool, and what a writer may store
RegConfigs ==
    { ScriptConfig(e, "shell", d, <<>>, <<>>, FALSE) :
        e \in BOOLEAN, d \in {"", "set by the user"} }

\* the scripts a discovery run analyses
RegScripts ==
    { [name |-> n, script_type |-> t,
       metadata |-> Metadata("from the script", <<"p_found">>, <<>>, FALSE)] :
        n \in RegistryNames, t \in ScriptTypes }

\* the registry as a reader of fresh values sees it: name -> fields
RegistryView ==
    [n \in RegistryNames |-> IF tools_map[n] = 0 THEN NoConfig ELSE objects[tools_map[n]]]

Free == { o \in 1..MaxObjects : objects[o] = NoConfig }

\* a new object: the next one that does not exist yet
NewObject == CHOOSE o \in Free : \A q \in Free : o <= q

\* Config._load_configs: the registry after construction holds t_a
InitReg ==
    /\ tools_map = [n \in RegistryNames |-> IF n = "t_a" THEN 1 ELSE 0]
    /\ objects \in { [o \in 1..MaxObjects |-> IF o = 1 THEN c ELSE NoConfig] : c \in RegConfigs }
    /\ reader = NothingHeld

\* Config.set_script_config(name, config) with a config the caller built
SetScriptConfig(name, config) ==
    /\ Free # {}
    /\ objects' = [objects EXCEPT ![NewObject] = config]
    /\ tools_map' = [tools_map EXCEPT ![name] = NewObject]
    /\ UNCHANGED reader
    /\ UNCHANGED <<pathVars, rateVars, execVars, fnVars>>

\* _analyze_python_script or _analyze_shell_script for one script: an entry
\* that exists is the object get_script_config returned, and its fields are
\* assigned on that object; a missing entry is created and stored
AnalyzeScript(script) ==
    LET after == IF script.script_type = "python"
                 THEN analyze_python_script(RegistryView, script)[script.name]
                 ELSE analyze_shell_script(RegistryView, script)[script.name]
    IN /\ IF tools_map[script.name] # 0
          THEN /\ objects' = [objects EXCEPT ![tools_map[script.name]] = after]
               /\ UNCHANGED tools_map
          ELSE /\ Free # {}
               /\ objects' = [objects EXCEPT ![NewObject] = after]
               /\ tools_map' = [tools_map EXCEPT ![script.name] = NewObject]
       /\ UNCHANGED reader
       /\ UNCHANGED <<pathVars, rateVars, execVars, fnVars>>

\* a caller keeps what Config.get_script_config(name) returned
GetScriptConfig(name) ==
    /\ reader = NothingHeld
    /\ tools_map[name] # 0
    /\ reader' = [got |-> "get_script_config",
                  refs |-> [n \in RegistryNames |-> IF n = name THEN tools_map[n] ELSE 0],
                  seen |-> [n \in RegistryNames |-> IF n = name THEN RegistryView[n] ELSE NoConfig]]
    /\ UNCHANGED <<tools_map, objects>>
    /\ UNCHANGED <<pathVars, rateVars, execVars, fnVars>>

\* a caller keeps what Config.get_all_script_configs() returned: a new dict
\* with the objects of the registry as its values
GetAllScriptConfigs ==
    /\ reader = NothingHeld
    /\ reader' = [got |-> "get_all_script_configs", refs |-> tools_map, seen |-> RegistryView]
    /\ UNCHANGED <<tools_map, objects>>
    /\ UNCHANGED <<pathVars, rateVars, execVars, fnVars>>

\* the caller assigns a field of an object it was given
ReaderAssigns(name) ==
    /\ reader.refs[name] # 0
    /\ objects[reader.refs[name]].description # "set by the reader"
    /\ objects' = [objects EXCEPT ![reader.refs[name]].description = "set by the reader"]
    /\ reader' = [reader EXCEPT !.seen[name] = objects'[reader.refs[name]]]
    /\ UNCHANGED tools_map
    /\ UNCHANGED <<pathVars, rateVars, execVars, fnVars>>

\* the caller deletes a key of the dict it was given
ReaderDeletes(name) ==
    /\ reader.got = "get_all_script_configs"
    /\ reader.refs[name] # 0
    /\ reader' = [reader EXCEPT !.refs[name] = 0, !.seen[name] = NoConfig]
    /\ UNCHANGED <<tools_map, objects>>
    /\ UNCHANGED <<pathVars, rateVars, execVars, fnVars>>

\* the caller is done with what it held
ReaderReturns ==
    /\ reader # NothingHeld
    /\ reader' = NothingHeld
    /\ UNCHANGED <<tools_map, objects>>
    /\ UNCHANGED <<pathVars, rateVars, execVars, fnVars>>

NextReg ==
    \/ \E name \in RegistryNames, config \in RegConfigs : SetScriptConfig(name, config)
    \/ \E script \in RegScripts : AnalyzeScript(script)
    \/ \E name \in RegistryNames : GetScriptConfig(name)
    \/ GetAllScriptConfigs
    \/ \E name \in RegistryNames : ReaderAssigns(name)
    \/ \E name \in RegistryNames : ReaderDeletes(name)
    \/ ReaderReturns

InitRegSpec == InitReg /\ PathIdle /\ RateIdle /\ ExecIdle /\ FnIdle

SpecReg == InitRegSpec /\ [][NextReg]_vars

----------------------------------------------------------------------------
(* Claims about the rate limiter, checked under SpecRate *)

Min(a, b) == IF a <= b THEN a ELSE b

\* C3: with the limiter enabled, of the k checks for one tool issued within one
\* second on a cleared queue exactly min(k, N) are allowed and the others are
\* denied (N+2 checks: N allowed, 2 denied); a burst restarts at reset(tool),
\* so the first check after a reset is allowed.
C3_BurstAdmitsExactlyN ==
    rl_enabled =>
        \A tool \in ToolNames :
            /\ rl_burst[tool].allowed = Min(rl_burst[tool].n, MaxPerMinute)
            /\ rl_burst[tool].n = MaxPerMinute + 2
                   => rl_burst[tool].n - rl_burst[tool].allowed = 2

\* one tool shows N allowed and 2 denied among N+2 checks within a second, the
\* other was reset while at its limit and its next check, just made, was allowed
C3_Witness ==
    /\ rl_enabled
    /\ rl_burst["t_ok"].n = MaxPerMinute + 2
    /\ rl_burst["t_ok"].allowed = MaxPerMinute
    /\ rl_flag["t_conf"] /\ rl_burst["t_conf"].n = 1
    /\ rl_last = [tool |-> "t_conf", at |-> now, allowed |-> TRUE, wait |-> -1]

----------------------------------------------------------------------------
(* Claims about sanitize_path, checked under SpecPath *)

PathCalled == p_out # NotCalled

InParts == PathParts(p_in.path)

RelativeInput == p_in.path # <<>> /\ Head(p_in.path) # "/"

AbsoluteInput == p_in.path # <<>> /\ Head(p_in.path) = "/"

\* the raw string has a '..' segment between its separators
HasDotDotSegment ==
    LET segs == SplitRec(p_in.path, <<>>)
    IN \E i \in 1..Len(segs) : segs[i] = DotDot

BaseIdx == 1..Len(p_in.allowed_bases)

\* where the relative input leads, after symlink expansion, when joined to base i
TargetVia(i) == Resolve(p_in.allowed_bases[i] \o InParts, fs)

\* where the absolute input leads
AbsTarget == IF p_in.follow_symlinks THEN Resolve(InParts, fs) ELSE InParts

InsideBase(t, i) == IsPrefix(Resolve(p_in.allowed_bases[i], fs), t)

StaysInside(i) == InsideBase(TargetVia(i), i)

\* C7: with follow_symlinks, a relative path is rejected when, joined to each
\* allowed base, its symlink-expanded target leaves that base; a relative path
\* without '..' whose target stays inside an allowed base is accepted and the
\* resolved target under the first such base is returned; an accepted path is
\* always a descendant of one of the allowed bases.
C7_SymlinkConfinement ==
    (PathCalled /\ RelativeInput /\ p_in.follow_symlinks) =>
        /\ (\A i \in BaseIdx : ~StaysInside(i)) => ~p_out.ok
        /\ (~HasDotDotSegment /\ \E i \in BaseIdx : StaysInside(i)) =>
              /\ p_out.ok
              /\ \E i \in BaseIdx :
                    /\ StaysInside(i)
                    /\ \A j \in 1..(i - 1) : ~StaysInside(j)
                    /\ p_out.resolved = TargetVia(i)
        /\ p_out.ok => \E i \in BaseIdx : InsideBase(p_out.resolved, i)

\* a relative path through a symlink that leaves every base has been rejected
C7_Witness ==
    /\ PathCalled /\ RelativeInput /\ p_in.follow_symlinks /\ ~HasDotDotSegment
    /\ Len(p_in.allowed_bases) = 2
    /\ \E i \in BaseIdx : TargetVia(i) # p_in.allowed_bases[i] \o InParts
    /\ ~p_out.ok /\ p_out.error.kind = "not_within"

\* C8: a path with a '..' component is rejected, whatever allow_absolute,
\* follow_symlinks and the allowed bases are, relative or absolute.
C8_ParentRefRejected ==
    (PathCalled /\ HasDotDotSegment) => ~p_out.ok

\* an absolute path with '..' below an allowed base, absolute paths allowed
C8_Witness ==
    /\ PathCalled /\ HasDotDotSegment /\ AbsoluteInput
    /\ p_in.allow_absolute /\ ~p_in.follow_symlinks
    /\ \E i \in BaseIdx : IsPrefix(p_in.allowed_bases[i], InParts)
    /\ ~p_out.ok /\ p_out.error.kind = "parent_ref"

\* C9: an absolute path is rejected when allow_absolute is false; with
\* allow_absolute true it is accepted only if it is a descendant of some
\* allowed base (then it is returned itself, no default base replaces it); an
\* absolute path inside no allowed base is rejected, and when that rejection
\* comes from the containment check its error lists the allowed bases.
C9_AbsoluteConfinement ==
    (PathCalled /\ AbsoluteInput) =>
        /\ ~p_in.allow_absolute => ~p_out.ok
        /\ p_out.ok =>
              /\ p_in.allow_absolute
              /\ \E i \in BaseIdx : InsideBase(AbsTarget, i)
              /\ p_out.resolved = AbsTarget
        /\ (\A i \in BaseIdx : ~InsideBase(AbsTarget, i)) =>
              /\ ~p_out.ok
              /\ (p_in.allow_absolute /\ ~HasDotDotSegment) =>
                    /\ p_out.error.kind = "not_within"
                    /\ p_out.error.bases = p_in.allowed_bases

\* an allowed absolute path outside both bases has been rejected, bases listed
C9_Witness ==
    /\ PathCalled /\ AbsoluteInput /\ p_in.allow_absolute /\ ~HasDotDotSegment
    /\ Len(p_in.allowed_bases) = 2
    /\ ~p_out.ok /\ p_out.error.bases = p_in.allowed_bases

----------------------------------------------------------------------------
(* Claims about the semaphore, checked under SpecSem *)

Count(events, e) == Len(SelectSeq(events, LAMBDA x : x = e))

Holders == {t \in Tasks : calls[t].pc = "holding"}

Suspended == {t \in Tasks : calls[t].pc = "waiting"}

Requested == {t \in Tasks : calls[t].pc # "idle"}

Released == {t \in Tasks : calls[t].pc = "done"}

AdmittedFromQueue ==
    {t \in Tasks : Has(calls[t].events, "queued") /\ Has(calls[t].events, "acquired")}

\* C2: under every interleaving of tasks that each acquire and later release
\* once, active_count is the number of tasks holding a slot and never exceeds
\* C; as long as nothing has been released, of k tasks that have requested
\* min(k, C) hold slots and the others are suspended with no wake-up pending
\* (C+2 requests: C hold, 2 suspended); a suspended task is woken or admitted
\* only against a release that has occurred.
C2_AtMostCHoldSlots ==
    /\ sem.active_count = Cardinality(Holders)
    /\ sem.active_count <= MaxConcurrent
    /\ Released = {} =>
          /\ Cardinality(Holders) = Min(Cardinality(Requested), MaxConcurrent)
          /\ Suspended = Requested \ Holders
          /\ sem.woken = {}
    /\ Cardinality(AdmittedFromQueue) + Cardinality(sem.woken) <= Cardinality(Released)

\* C+2 tasks have requested and none has released: C hold, 2 are suspended
C2_Witness ==
    /\ Released = {}
    /\ Cardinality(Requested) = MaxConcurrent + 2
    /\ Cardinality(Holders) = MaxConcurrent
    /\ Cardinality(Suspended) = 2
    /\ Len(sem.waiters) = 2

----------------------------------------------------------------------------
(* Claims about the executor and call_tool, checked under Spec *)

Replied == last # NoLast

InFlight == {c \in Calls : calls[c].pc # "idle"}

HoldingPcs == {"spawning", "communicating", "reaping"}

\* C1: a call that was admitted releases its slot exactly once before it
\* returns, on every exit path after admission; so when no call is in flight
\* the semaphore's active count is 0.
C1_SlotReleasedOnEveryExit ==
    /\ (Replied /\ Has(last.events, "acquired")) => Count(last.events, "release") = 1
    /\ InFlight = {} => sem.active_count = 0

\* an admitted call has returned from the security validation failure
C1_Witness ==
    /\ Replied
    /\ Has(last.events, "acquired") /\ Has(last.events, "security_failed")
    /\ InFlight = {}

TimeoutTail == <<"kill", "reaped", "release">>

EndsWith(events, tail) ==
    /\ Len(events) >= Len(tail)
    /\ SubSeq(events, Len(events) - Len(tail) + 1, Len(events)) = tail

C4_Returned ==
    (Replied /\ Has(last.events, "kill")) =>
        /\ ~last.result.success
        /\ last.result.error_type = "timeout"
        /\ EndsWith(last.events, TimeoutTail)
        /\ \A e \in {"kill", "reaped", "release"} : Count(last.events, e) = 1

C4_Reaping ==
    \A c \in Calls :
        calls[c].pc = "reaping" =>
            /\ Has(calls[c].events, "kill")
            /\ ~Has(calls[c].events, "release")

\* the step in which a timed-out call returns
C4_SlotFreed ==
    (last = NoLast /\ last' # NoLast /\ Has(last'.events, "kill")) =>
        /\ sem'.active_count = sem.active_count - 1
        /\ \/ sem'.value = sem.value + 1
           \/ Cardinality(sem'.woken) = Cardinality(sem.woken) + 1

\* C4: a script that runs past the timeout is killed, then reaped; the call
\* returns success false with error_type 'timeout'; the slot is released once,
\* after the kill and the wait and not before, and the release frees the slot
\* for the next call (the semaphore gets it back or a queued call is woken).
C4_TimeoutKillsReapsReleases ==
    [](C4_Returned /\ C4_Reaping) /\ [][C4_SlotFreed]_vars

\* a call that was queued behind another has timed out and returned
C4_Witness ==
    /\ Replied
    /\ Has(last.events, "queued")
    /\ last.result.error_type = "timeout"
    /\ EndsWith(last.events, TimeoutTail)
    /\ sem.active_count = 0 /\ sem.value = MaxConcurrent

NeedsConfirmation(name) ==
    /\ name \in ToolNames
    /\ tools_config[name].enabled
    /\ tools_config[name].requires_confirmation

NoConfirm(args) == ~HasKey(ArgMaps[args], K_confirm)

PreflightEvents ==
    {"unknown", "disabled", "unconfirmed", "rate_denied", "security_failed", "script_missing"}

\* a pre-flight check of the call fails: by its inputs, or by what it met
PreflightFails(name, args, events) ==
    \/ name \notin ToolNames
    \/ ~tools_config[name].enabled
    \/ confirmation_missing(tools_config[name], ArgMaps[args])
    \/ security_errors[name][args] # <<>>
    \/ \E e \in PreflightEvents : Has(events, e)

SpawnEvents == {"spawn", "spawn_failed", "exited", "kill", "reaped"}

\* C6: a call in which a pre-flight check fails (unknown or disabled tool,
\* missing confirmation, rate-limit rejection, security validation error,
\* missing script) never creates a subprocess: it returns with no spawn in its
\* history, and while in flight it is not at the spawn or beyond it.
C6_PreflightFailureNeverSpawns ==
    /\ (Replied /\ PreflightFails(last.name, last.args, last.events)) =>
          \A e \in SpawnEvents : ~Has(last.events, e)
    /\ \A c \in InFlight :
          PreflightFails(calls[c].name, calls[c].args, calls[c].events) =>
              calls[c].pc \notin HoldingPcs

\* a call that waited for its slot found its script missing and returned
C6_Witness ==
    /\ Replied
    /\ Has(last.events, "queued") /\ Has(last.events, "script_missing")
    /\ last.result.error_type = "validation"

\* the raw messages of the exceptions the subprocess layer raises
RawMessages ==
    {OSErrorOf(type, name).message : type \in OSErrorTypes, name \in ToolNames}
        \cup {DecodeError.message}

SubprocessRaised(events) == Has(events, "spawn_failed") \/ Has(events, "decode_failed")

\* C10: when the subprocess layer raises (an OS error on spawn, a decode error
\* on output), the text call_tool returns does not contain the exception's raw
\* message.
C10_SubprocessErrorsAreSafe ==
    (Replied /\ last.entry = "call_tool" /\ SubprocessRaised(last.events)) =>
        \A m \in RawMessages : ~Contains(last.reply.body, m)

\* call_tool has returned after create_subprocess_exec raised
C10_Witness ==
    /\ Replied /\ last.entry = "call_tool"
    /\ Has(last.events, "spawn_failed")
    /\ Contains(last.reply.body, OSErrorOf("FileNotFoundError", last.name).message)

----------------------------------------------------------------------------
(* Claims about functions called on their own, checked under SpecFn *)

Applied(fn) == fn_in.fn = fn /\ fn_out.done

\* C11: format_error returns the same text for two exceptions of one type
\* whatever their messages are, given the same tool name and request id; and
\* no piece of the exception's message (a path, a file name) is in that text.
C11_FormatErrorIgnoresMessage ==
    Applied("format_error") =>
        /\ fn_out.text = fn_out.other
        /\ \A i \in 1..Len(fn_in.message), j \in 1..Len(fn_out.text) :
              fn_out.text[j] # fn_in.message[i]

\* a FileNotFoundError for a file below a home directory has been formatted
C11_Witness ==
    /\ Applied("format_error")
    /\ fn_in.type = "FileNotFoundError"
    /\ Has(fn_in.message, "/Users/alice") /\ Has(fn_in.message, "passwords.txt")
    /\ fn_in.other # fn_in.message
    /\ fn_out.text = <<"Tool '", "t_ok", "' failed: ", "The requested resource was not found",
                       " (Request ID: ", RequestId, ")">>

\* redact_dict was applied to one string stored under a sensitive key
FlatCase == Applied("redact_dict") /\ fn_in.data \in FlatData

FlatKey == fn_in.data[1].k

FlatValue == fn_in.data[1].v.s

FlatOut == fn_out.data[1].v.s

First3(v) == SubSeq(v, 1, Min(3, Len(v)))

Last3(v) == SubSeq(v, Len(v) - Min(3, Len(v)) + 1, Len(v))

\* what redact_dict returns for another value under the same key
OutFor(w) ==
    redact_dict(<<Item(FlatKey, StrV(w))>>, fn_in.sensitive_keys,
                fn_in.redaction_style, fn_in.scan_values)[1].v.s

\* C13 as stated: for every string under a sensitive key, 'full' gives the
\* fixed placeholder, 'partial' gives the first 3 characters, '***' and the
\* last 3 characters, 'hint' gives a text that contains the value's length and
\* not the value.
C13_AsStated ==
    FlatCase =>
        /\ fn_in.redaction_style = "full" => FlatOut = REDACTED
        /\ fn_in.redaction_style = "partial" =>
              FlatOut = First3(FlatValue) \o <<"*", "*", "*">> \o Last3(FlatValue)
        /\ fn_in.redaction_style = "hint" =>
              /\ ~Contains(FlatOut, FlatValue)
              /\ Contains(FlatOut, Decimal(Len(FlatValue)))

\* C13: for a string under a sensitive key, 'full' gives the fixed placeholder
\* whatever the value; 'partial' gives the first 3 characters, '***' and the
\* last 3 characters when the value is longer than 8 characters, the same for
\* all values with these ends, and the fixed placeholder when it is not;
\* 'hint' gives a text that contains the value's length and is the same for
\* all values of that length under that key.
C13_RedactionStyles ==
    FlatCase =>
        /\ fn_in.redaction_style = "full" => FlatOut = REDACTED
        /\ fn_in.redaction_style = "partial" =>
              IF Len(FlatValue) > 8
              THEN /\ FlatOut = First3(FlatValue) \o <<"*", "*", "*">> \o Last3(FlatValue)
                   /\ \A w \in SecretValues :
                         (Len(w) > 8 /\ First3(w) = First3(FlatValue)
                                     /\ Last3(w) = Last3(FlatValue)) => OutFor(w) = FlatOut
              ELSE FlatOut = REDACTED
        /\ fn_in.redaction_style = "hint" =>
              /\ Contains(FlatOut, Decimal(Len(FlatValue)))
              /\ \A w \in SecretValues : Len(w) = Len(FlatValue) => OutFor(w) = FlatOut

\* a 12-character password has been redacted with style 'partial'
C13_Witness ==
    /\ FlatCase
    /\ fn_in.redaction_style = "partial"
    /\ fn_in.data = <<Item(K_password, StrV(Secret12))>>
    /\ fn_out.data = <<Item(K_password, StrV(<<"a", "b", "c", "*", "*", "*", "7", "8", "9">>))>>

\* the claim's rule for a sensitive key: it contains, compared
\* case-insensitively, a word of the vocabulary or a caller-supplied key
ClaimSensitive(key, sensitive_keys) ==
    \E sk \in SENSITIVE_KEYS \cup sensitive_keys : Contains(Lower(key), Lower(sk))

RECURSIVE Survives(_, _, _)
\* some value under a sensitive key inside v is still there in w, the output
\* at the same place
Survives(v, w, sensitive_keys) ==
    IF v.t = "dict"
    THEN /\ w.t = "dict"
         /\ \E i \in 1..Len(v.items) :
               IF ClaimSensitive(v.items[i].k, sensitive_keys)
               THEN w.items[i].v = v.items[i].v
               ELSE Survives(v.items[i].v, w.items[i].v, sensitive_keys)
    ELSE IF v.t = "list"
    THEN /\ w.t = "list"
         /\ \E i \in 1..Len(v.elems) : Survives(v.elems[i], w.elems[i], sensitive_keys)
    ELSE FALSE

\* C14: after redact_dict no value stored under a sensitive key, at any
\* depth inside mappings and sequences, is still in the output.
C14_EveryNestedFieldRedacted ==
    Applied("redact_dict") =>
        ~Survives(DictV(fn_in.data), DictV(fn_out.data), fn_in.sensitive_keys)

\* a mapping inside a list inside a list has come back unchanged
C14_Witness ==
    /\ Applied("redact_dict")
    /\ fn_in.data = <<Item(K_note, ListV(<<ListV(<<DictV(<<Item(K_PassWord, StrV(Secret12))>>)>>)>>))>>
    /\ fn_out.data = fn_in.data


----------------------------------------------------------------------------
(* Claims about what is logged, checked under Spec *)

\* the strings a caller passed under a key that counts as sensitive
SensitiveValues(arguments) ==
    { arguments[i].v.s : i \in { j \in 1..Len(arguments) :
                                   /\ arguments[j].v.t = "str"
                                   /\ arguments[j].v.s # <<>>
                                   /\ is_sensitive_key(arguments[j].k, config_sensitive_keys) } }

\* the record embeds the string
Embeds(rec, value) == \E i \in 1..Len(rec.data) : Contains(rec.data[i], value)

LastRecords == records_of(last)

\* C12: with redaction switched on, no record of the main log or of the audit
\* log written for a call_tool request embeds a value the caller passed under
\* a sensitive key.
C12_NoSensitiveValueLogged ==
    (Replied /\ last.entry = "call_tool" /\ redact_sensitive_data)
        => \A v \in SensitiveValues(ArgMaps[last.args]) :
              \A i \in 1..Len(LastRecords) : ~Embeds(LastRecords[i], v)

\* a request with a password has been answered after its script was started:
\* the opening log line and the audit record show the password redacted
C12_Witness ==
    /\ Replied /\ last.entry = "call_tool" /\ last.args = "a_good"
    /\ Has(last.events, "spawn")
    /\ Hunter2 \in SensitiveValues(ArgMaps[last.args])
    /\ Contains(LastRecords[1].data[1], <<"'", "p", "a", "s", "s", "w", "o", "r", "d", "'", ":", " ", "'">> \o REDACTED)
    /\ ~Embeds(LastRecords[1], Hunter2)
    /\ LastRecords[2].log = "audit" /\ ~Embeds(LastRecords[2], Hunter2)

\* the audit events of the answered request, in the order they were written
AuditEvents(records) == SelectSeq(records, LAMBDA rec : rec.log = "audit")

CountEvent(records, event) == Len(SelectSeq(records, LAMBDA rec : rec.event = event))

\* C15: the audit events of a call_tool request all carry the request id of
\* that request, and its tool_execution_start is followed by exactly one
\* tool_execution_end, however the request ends.
C15_OneEndPerStart ==
    (Replied /\ last.entry = "call_tool")
        => LET audit == AuditEvents(LastRecords)
           IN /\ \A i \in 1..Len(audit) : audit[i].request_id = RequestId
              /\ audit[1].event = "tool_execution_start"
              /\ CountEvent(audit, "tool_execution_start") = 1
              /\ CountEvent(audit, "tool_execution_end") = 1

\* a script has printed JSON that json.loads parsed: one start, one end
C15_Witness ==
    /\ Replied /\ last.entry = "call_tool"
    /\ last.reply.format = "json" /\ last.reply.status = "success"
    /\ CountEvent(AuditEvents(LastRecords), "tool_execution_start") = 1
    /\ CountEvent(AuditEvents(LastRecords), "tool_execution_end") = 1

----------------------------------------------------------------------------
(* Claims about the script the executor runs, checked under Spec *)

\* the file the tool's script_path leads to lies under the tools root
UnderToolsRoot(name) == relative_to_ok(Resolve(script_file(name), fs), tools_dir)

\* the executor has called create_subprocess_exec for this call
SpawnAttempted(events) == Has(events, "spawn") \/ Has(events, "spawn_failed")

\* C16: a call gets as far as starting the script only if, on that call, the
\* script was seen to exist and its path leads to a file under the tools
\* root; a call that finds the script missing is answered 'validation'.
C16_ScriptUnderToolsRoot ==
    /\ \A c \in Calls :
          (calls[c].pc = "spawning" \/ SpawnAttempted(calls[c].events))
              => /\ Has(calls[c].events, "script_present")
                 /\ UnderToolsRoot(calls[c].name)
    /\ Replied =>
          /\ SpawnAttempted(last.events)
                => Has(last.events, "script_present") /\ UnderToolsRoot(last.name)
          /\ (Has(last.events, "script_missing") \/
                (Has(last.events, "security_ok") /\ ~UnderToolsRoot(last.name)))
                => last.result.error_type = "validation" /\ ~SpawnAttempted(last.events)

\* the script of a tool whose script_path leads out of the tools root is running
C16_Witness ==
    \E c \in Calls :
        /\ calls[c].pc = "communicating"
        /\ Has(calls[c].events, "script_present") /\ Has(calls[c].events, "spawn")
        /\ ~UnderToolsRoot(calls[c].name)

----------------------------------------------------------------------------
(* Claims about the executor called on its own, checked under SpecFn *)

ConfirmOf(args) == Get(ArgMaps[args], K_confirm, NoneV)

\* C17: for an enabled tool that requires confirmation, a call whose 'confirm'
\* is anything but the boolean true returns 'confirmation_required' and does
\* not get to admission.
C17_OnlyTrueConfirms ==
    ( /\ Applied("execute_script_structured")
      /\ NeedsConfirmation(fn_in.name)
      /\ ConfirmOf(fn_in.args) # BoolV(TRUE) )
        => /\ fn_out.how = "returned"
           /\ fn_out.result.error_type = "confirmation_required"
           /\ ~Has(fn_out.events, "rate_ok")

\* confirm is false: the call is turned away before admission
C17_Witness ==
    /\ Applied("execute_script_structured")
    /\ NeedsConfirmation(fn_in.name)
    /\ ConfirmOf(fn_in.args) = BoolV(FALSE)
    /\ fn_out.result.error_type = "confirmation_required"
    /\ fn_out.events = <<"unconfirmed">>

----------------------------------------------------------------------------
(* Claims about validate_arguments_security, checked under SpecFn *)

\* the arguments that get string sanitization: not reserved, validly named,
\* not named like a path
StringChecked(item) ==
    /\ item.k \notin ReservedKeys
    /\ sanitize_identifier(item.k) = ""
    /\ ~IsPathKey(item.k)

ErrorsFor(key) == SelectSeq(fn_out.errors, LAMBDA e : e.key = key)

Rejected(key) == ErrorsFor(key) # <<>>

MaxLenOf(w) == IF w.max_string_length # 0 THEN w.max_string_length ELSE MAX_STRING_LENGTH

HasNul(s) == \E i \in 1..Len(s) : s[i] = NUL

\* C18: a string argument is rejected for a prompt-injection phrase only when
\* the workspace policy has check_prompt_injection set; without it a string
\* within the length limit and free of NUL passes; a value that is not a
\* string, is too long or holds a NUL is rejected under either setting.
C18_InjectionCheckFollowsPolicy ==
    Applied("validate_arguments_security") =>
        \A i \in 1..Len(fn_in.arguments) :
            LET item == fn_in.arguments[i]
                w == fn_in.workspace_config
                malformed == \/ item.v.t # "str"
                             \/ Len(item.v.s) > MaxLenOf(w)
                             \/ HasNul(item.v.s)
            IN StringChecked(item) =>
                  Rejected(item.k) <=>
                      \/ malformed
                      \/ w.check_prompt_injection /\ detect_prompt_injection(item.v.s)

\* with the check switched on, a value holding 'IGNORE' is rejected as a
\* prompt injection
C18_Witness ==
    /\ Applied("validate_arguments_security")
    /\ fn_in.workspace_config.check_prompt_injection
    /\ \E i \in 1..Len(fn_in.arguments) :
          /\ StringChecked(fn_in.arguments[i])
          /\ fn_in.arguments[i].v = StrV(<<"I", "G", "N", "O", "R", "E">>)
          /\ ErrorsFor(fn_in.arguments[i].k) =
                <<[key |-> fn_in.arguments[i].k, what |-> "string", error |-> "prompt_injection"]>>

\* the argument breaks the rule the claim puts it under: a bad name, a path
\* that is not confined, a string that string sanitization turns down
Offending(item, w) ==
    /\ item.k \notin ReservedKeys
    /\ \/ sanitize_identifier(item.k) # ""
       \/ /\ IsPathKey(item.k)
          /\ item.v.t = "str" /\ item.v.s # <<>>
          /\ ~sanitize_path(item.v.s, allowed_paths_of(w, ToolSeg("t_ok")),
                            w.allow_absolute_paths, w.follow_symlinks, NoLinks).ok
       \/ /\ ~IsPathKey(item.k)
          /\ item.v.t = "str"
          /\ sanitize_string_value(item.v.s, w.max_string_length,
                                   w.check_prompt_injection) # ""

OffendingKeys(arguments, w) ==
    LET bad == SelectSeq(arguments, LAMBDA item : Offending(item, w))
    IN [i \in 1..Len(bad) |-> bad[i].k]

IsSubSeq(a, b) ==
    \E f \in [1..Len(a) -> 1..Len(b)] :
        /\ \A i \in 1..Len(a) : b[f[i]] = a[i]
        /\ \A i, j \in 1..Len(a) : i < j => f[i] < f[j]

ErrorKeys == [i \in 1..Len(fn_out.errors) |-> fn_out.errors[i].key]

\* what the executor's own call of the validation returns for the call at hand
ErrorsOfCall ==
    validate_arguments_security(ArgMaps[fn_in.args], tools_config[fn_in.name],
                                ToolSeg(fn_in.name), fs)

C19_ExecutorCase ==
    /\ Applied("execute_script_structured")
    /\ fn_in.args = "a_bad2"
    /\ Len(ErrorsOfCall) = 2
    /\ fn_out.result.error_type = "security_validation"

----------------------------------------------------------------------------
(* Claims about get_available_tools, checked under SpecFn *)

Names(seq) == [i \in 1..Len(seq) |-> seq[i].name]

RequiredParams(parameters) ==
    LET req == SelectSeq(parameters, LAMBDA param : Get(param, "required", FALSE))
    IN [i \in 1..Len(req) |-> Get(req[i], "name", "value")]

NotConfirm(name) == name # "confirm"

\* the discovered script a returned tool was made from
ConfigOf(name) ==
    fn_in.discovered[CHOOSE i \in 1..Len(fn_in.discovered) :
                        fn_in.discovered[i].name = name].config

\* C20: get_available_tools returns the enabled discovered tools and no
\* others; each schema has a boolean 'confirm' property, lists 'confirm' as
\* required iff the tool requires confirmation, has one property per declared
\* parameter, and beside 'confirm' requires exactly the parameters declared
\* required.
C20_SchemaAsDeclared ==
    Applied("get_available_tools") =>
        /\ Names(fn_out.tools)
              = Names(SelectSeq(fn_in.discovered, LAMBDA script : script.config.enabled))
        /\ \A i \in 1..Len(fn_out.tools) :
              LET schema == fn_out.tools[i].inputSchema
                  config == ConfigOf(fn_out.tools[i].name)
              IN /\ HasKey(schema.properties, "confirm")
                 /\ Get(schema.properties, "confirm", [type |-> ""]).type = "boolean"
                 /\ Has(schema.required, "confirm") <=> config.requires_confirmation
                 /\ Len(schema.properties) = 1 + Len(config.parameters)
                 /\ \A j \in 1..Len(config.parameters) :
                       HasKey(schema.properties, Get(config.parameters[j], "name", "value"))
                 /\ SelectSeq(schema.required, NotConfirm)
                       = SelectSeq(RequiredParams(config.parameters), NotConfirm)

\* an enabled tool that requires confirmation and declares a required 'file'
\* is listed with the schema the claim describes; a disabled one is left out
C20_Witness ==
    /\ Applied("get_available_tools")
    /\ Len(fn_in.discovered) = 2
    /\ fn_in.discovered[1].config
          = ToolConfig(TRUE, TRUE, << <<Item("name", "file"), Item("type", "string"),
                                        Item("required", TRUE)>> >>)
    /\ ~fn_in.discovered[2].config.enabled
    /\ Len(fn_out.tools) = 1
    /\ fn_out.tools[1].inputSchema
          = [properties |-> <<Item("confirm", [type |-> "boolean"]),
                              Item("file", [type |-> "string"])>>,
             required |-> <<"confirm", "file">>]

----------------------------------------------------------------------------
(* Claims about what call_tool returns for a result, checked under Spec *)

\* call_tool has answered with what it made of a result of the executor
AnsweredResult ==
    /\ Replied /\ last.entry = "call_tool"
    /\ last.called_executor /\ last.raised = NoExc
    /\ ~parse_raises(last.result)

\* C21: for a successful execution call_tool returns an envelope with status
\* 'success' and a format tag, for a failed one an envelope with status
\* 'error' and a format tag (the envelope is the JSON object that also holds
\* the data or error and the metadata).
C21_EveryReplyIsAnEnvelope ==
    AnsweredResult =>
        /\ last.reply.envelope
        /\ last.reply.status = (IF last.result.success THEN "success" ELSE "error")
        /\ last.reply.format \in {"json", "text"}

\* a script has printed JSON and exited 0: the reply is the success envelope
\* around that output
C21_Witness ==
    /\ AnsweredResult
    /\ last.result.success /\ is_json(last.result.stdout)
    /\ last.reply = Reply(TRUE, "success", "json", last.result.stdout)

----------------------------------------------------------------------------
(* Claims about the output of a successful execution, checked under SpecFn *)

TooLong == fn_in.max_output_length # 0 /\ Len(fn_in.stdout) > fn_in.max_output_length

CutAndMarked ==
    SubSeq(fn_in.stdout, 1, fn_in.max_output_length)
        \o truncation_marker(fn_in.max_output_length)

\* the output is JSON text, whether or not json.loads gets through it
ValidJson(s) == parse_value(s, 1, -Len(s)) = Len(s) + 1

\* C22 as stated: an output over the limit is cut to the limit and marked,
\* and an output that is valid JSON is forwarded as structured data, any
\* other as plain text.
C22_AsStated ==
    Applied("reply_for_output") =>
        /\ TooLong => fn_out.output = CutAndMarked
        /\ fn_out.reply.format = (IF ValidJson(fn_in.stdout) THEN "json" ELSE "text")
        /\ fn_out.reply.envelope <=> ValidJson(fn_in.stdout)

\* C22: an output over the limit is cut to the limit and marked, and it is the
\* cut text that json.loads is given: with the marker in it that text is never
\* JSON, so it is forwarded as plain text whatever the output held. The text
\* handed on is forwarded as structured data when json.loads accepts it, as
\* plain text when json.loads rejects it, and answered with the error text
\* when it nests deeper than json.loads can follow.
C22_TruncateThenParse ==
    Applied("reply_for_output") =>
        /\ fn_out.output = (IF TooLong THEN CutAndMarked ELSE fn_in.stdout)
        /\ TooLong => json_loads(fn_out.output) # "ok" /\ fn_out.reply.format # "json"
        /\ fn_out.reply =
              CASE json_loads(fn_out.output) = "ok" ->
                       Reply(TRUE, "success", "json", fn_out.output)
                [] json_loads(fn_out.output) = "invalid" ->
                       Reply(FALSE, "", "text", fn_out.output)
                [] OTHER -> reply_for_exception(TooDeep, "t_ok", RequestId)

\* a JSON array longer than the limit has been cut, marked and sent as text
C22_Witness ==
    /\ Applied("reply_for_output")
    /\ fn_in.stdout = <<"[", "1", "1", "]">> /\ fn_in.max_output_length = 3
    /\ ValidJson(fn_in.stdout)
    /\ fn_out.reply.format = "text"
    /\ fn_out.reply.body = <<"[", "1", "1">> \o truncation_marker(3)

\* an array inside an array within the limit: json.loads gives up
C22_TooDeepCase ==
    /\ Applied("reply_for_output")
    /\ ~TooLong /\ ValidJson(fn_in.stdout) /\ json_loads(fn_in.stdout) = "recursion"


----------------------------------------------------------------------------
(* Claims about generated tool names, checked under SpecFn *)

\* C23: the generated name is a function of the relative path alone, holds 1
\* to 64 characters from [A-Za-z0-9_-], begins with a letter, is
\* 'unnamed_tool' when nothing is left of the path, and is accepted by
\* sanitize_identifier.
C23_GeneratedNameIsIdentifier ==
    Applied("generate_script_name") =>
        /\ fn_out.name = generate_script_name(fn_in.relative_path)
        /\ Len(fn_out.name) \in 1..64
        /\ \A i \in 1..Len(fn_out.name) : IdentChar(fn_out.name[i])
        /\ IsLetter(fn_out.name[1])
        /\ name_stem(fn_in.relative_path) = <<>> => fn_out.name = <<"u", "n", "n", "a", "m", "e", "d", "_", "t", "o", "o", "l">>
        /\ sanitize_identifier(fn_out.name) = ""

\* a path that starts with a digit and is longer than 64 characters got the
\* prefix and was then cut to 64
C23_Witness ==
    /\ Applied("generate_script_name")
    /\ Len(name_stem(fn_in.relative_path)) > 60 /\ fn_in.relative_path[1] = "9"
    /\ Len(fn_out.name) = 64
    /\ SubSeq(fn_out.name, 1, 6) = <<"t", "o", "o", "l", "_", "9">>

----------------------------------------------------------------------------
(* Claims about the merge policy of discovery, checked under SpecFn *)

Before(n) == fn_in.registry[n]

After(n) == fn_out.registry[n]

Found(n) == \E i \in 1..Len(fn_in.scripts) : fn_in.scripts[i].name = n

\* C24: a discovery run leaves an entry that is disabled as it is, field by
\* field, and leaves every entry that was in the registry in it.
C24_DisabledEntriesUntouched ==
    Applied("full_discovery") =>
        \A n \in RegistryNames :
            /\ (Before(n).exists /\ ~Before(n).enabled) => After(n) = Before(n)
            /\ Before(n).exists => After(n).exists

\* a disabled entry with nothing filled in, and a script of that name with a
\* description, parameters and examples: the entry is as it was
C24_Witness ==
    /\ Applied("full_discovery")
    /\ Before("t_a") = ScriptConfig(FALSE, "shell", "", <<>>, <<>>, FALSE)
    /\ fn_in.scripts[1].metadata = Metadata("from the script", <<"p_found">>, <<"e_found">>, TRUE)
    /\ After("t_a") = Before("t_a")
    /\ Found("t_b") /\ ~Before("t_b").exists /\ After("t_b").exists

\* C25: for an entry that exists and is enabled, a discovery run changes only
\* fields that were empty: a description, parameter list or examples list
\* that was not empty, and an interactive flag that was set, are the same
\* afterwards, whichever kind of script was found.
C25_OnlyEmptyFieldsFilled ==
    Applied("full_discovery") =>
        \A n \in RegistryNames :
            (Before(n).exists /\ Before(n).enabled) =>
                /\ Before(n).description # "" => After(n).description = Before(n).description
                /\ Before(n).parameters # <<>> => After(n).parameters = Before(n).parameters
                /\ Before(n).examples # <<>> => After(n).examples = Before(n).examples
                /\ Before(n).interactive => After(n).interactive

\* an enabled entry with every field set by the user, and a Python script of
\* that name that declares all of them: the entry is as it was
C25_Witness ==
    /\ Applied("full_discovery")
    /\ Before("t_a") = ScriptConfig(TRUE, "shell", "set by the user", <<"p_user">>,
                                    <<"e_user">>, TRUE)
    /\ fn_in.scripts[1].script_type = "python"
    /\ fn_in.scripts[1].metadata = Metadata("from the script", <<"p_found">>, <<"e_found">>, FALSE)
    /\ After("t_a") = Before("t_a")

----------------------------------------------------------------------------
(* Claims about incremental discovery, checked under SpecFn *)

CandidateModified ==
    \E i \in 1..Len(fn_in.files) : IsCandidate(fn_in.files[i]) /\ fn_in.files[i].newer

\* C26: discover_scripts reuses the registry without a scan iff it was not
\* asked for a full run, the registry loads with a tool in it, the timestamp
\* of the last run can be read, the scan raises nothing and no candidate
\* script was modified after that timestamp; otherwise it runs a full
\* discovery.
C26_IncrementalIffUnchanged ==
    Applied("discover_scripts") =>
        /\ fn_out.mode \in {"incremental", "full"}
        /\ fn_out.mode = "incremental" <=>
              /\ ~fn_in.force_full
              /\ fn_in.registry = "loaded"
              /\ fn_in.timestamp = "readable"
              /\ ~fn_in.scan_raises
              /\ ~CandidateModified

\* nothing was modified since the last run: the registry is reused
C26_Witness ==
    /\ Applied("discover_scripts")
    /\ ~fn_in.force_full /\ fn_in.registry = "loaded" /\ fn_in.timestamp = "readable"
    /\ ~fn_in.scan_raises
    /\ Len(fn_in.files) = 2 /\ IsCandidate(fn_in.files[1]) /\ ~CandidateModified
    /\ fn_out.mode = "incremental"

----------------------------------------------------------------------------
(* Claims about the command line, checked under SpecFn *)

\* the items that are no MCP-reserved key, in argument order
Remaining(m) == SelectSeq(m, LAMBDA it : it.k \notin ReservedKeys)

RECURSIVE FlagsFor(_)
\* the flags the argv convention asks for: '--key=value' for a key of several
\* characters, '-k' 'value' for a key of one, the key as it is when it
\* already starts with '--'
FlagsFor(items) ==
    IF items = <<>> THEN <<>>
    ELSE LET k == Head(items).k
             v == Head(items).v.s
         IN (IF Len(k) >= 2 /\ SubSeq(k, 1, 2) = <<"-", "-">> THEN << k \o <<"=">> \o v >>
             ELSE IF Len(k) = 1 THEN << <<"-">> \o k, v >>
             ELSE << <<"-", "-">> \o k \o <<"=">> \o v >>)
            \o FlagsFor(Tail(items))

\* 'function' if the map has it, else 'command' if the map has it
PresentSubcommand(m) ==
    IF HasKey(m, K_function) THEN <<Get(m, K_function, NoneV).s>>
    ELSE IF HasKey(m, K_command) THEN <<Get(m, K_command, NoneV).s>>
    ELSE <<>>

\* 'function' if the map has it with a non-empty value, else 'command' if the
\* map has it with a non-empty value
NonEmptySubcommand(m) ==
    IF HasKey(m, K_function) /\ Get(m, K_function, NoneV).s # <<>>
    THEN <<Get(m, K_function, NoneV).s>>
    ELSE IF HasKey(m, K_command) /\ Get(m, K_command, NoneV).s # <<>>
    THEN <<Get(m, K_command, NoneV).s>>
    ELSE <<>>

\* C27 as stated: the argv is the value of 'function' if present, otherwise of
\* 'command' if present, followed by one flag per remaining key in argument
\* order, none of them for a reserved key.
C27_AsStated ==
    Applied("build_script_arguments") =>
        fn_out.args = PresentSubcommand(fn_in.arguments) \o FlagsFor(Remaining(fn_in.arguments))

\* C27: the argv is the value of 'function' if present and not empty,
\* otherwise the value of 'command' if present and not empty, followed by one
\* flag per remaining key in argument order, none of them for a reserved key.
C27_NonEmptySubcommandFirst ==
    Applied("build_script_arguments") =>
        /\ fn_out.args = NonEmptySubcommand(fn_in.arguments) \o FlagsFor(Remaining(fn_in.arguments))
        /\ \A i \in 1..Len(fn_out.args) : \A k \in ReservedKeys :
              /\ Len(fn_out.args[i]) >= 2 + Len(k) => SubSeq(fn_out.args[i], 3, 2 + Len(k)) # k
              /\ fn_out.args[i] # <<"-">> \o k

\* both sub-command keys and a one-character key: 'function' wins, the value
\* of 'command' is dropped, the short key gives two tokens
C27_Witness ==
    /\ Applied("build_script_arguments")
    /\ fn_in.arguments = << Item(K_command, StrV(<<"y">>)), Item(K_short, StrV(<<"y">>)),
                            Item(K_function, StrV(<<"x">>)) >>
    /\ fn_out.args = << <<"x">>, <<"-", "n">>, <<"y">> >>

----------------------------------------------------------------------------
(* Claims about identifiers, checked under SpecFn *)

\* C28: sanitize_identifier accepts a name iff it has 1 to 64 characters, each
\* of them a letter, a digit, an underscore or a hyphen.
C28_AcceptsExactlyIdentifiers ==
    Applied("sanitize_identifier") =>
        (fn_out.error = "" <=>
            /\ Len(fn_in.name) \in 1..MAX_IDENTIFIER_LENGTH
            /\ \A i \in 1..Len(fn_in.name) : IdentChar(fn_in.name[i]))

\* a name of exactly 64 letters is accepted
C28_Witness ==
    /\ Applied("sanitize_identifier")
    /\ Len(fn_in.name) = MAX_IDENTIFIER_LENGTH
    /\ \A i \in 1..Len(fn_in.name) : IdentChar(fn_in.name[i])
    /\ fn_out.error = ""

\* a path separator is refused
C28_SeparatorCase ==
    /\ Applied("sanitize_identifier")
    /\ fn_in.name = <<"a", "/", "a">>
    /\ fn_out.error = "invalid_format"

----------------------------------------------------------------------------
(* Claims about the allowed bases, checked under SpecFn *)

OwnWorkspace(tool_name) == tools_dir \o <<tool_name, workspace_seg>>

\* C29: with an empty allowed_paths list the allowed bases are the tool's own
\* workspace directory and nothing else; and in no case does the list hold a
\* directory that is neither configured nor that workspace.
C29_EmptyListMeansOwnWorkspace ==
    Applied("build_allowed_paths") =>
        /\ fn_in.workspace_config.allowed_paths = <<>>
              => fn_out.allowed_paths = <<OwnWorkspace(fn_in.tool_name)>>
        /\ \A i \in 1..Len(fn_out.allowed_paths) :
              \/ fn_out.allowed_paths[i] = OwnWorkspace(fn_in.tool_name)
              \/ \E j \in 1..Len(fn_in.workspace_config.allowed_paths) :
                    fn_out.allowed_paths[i]
                        = ExpandTemplate(fn_in.workspace_config.allowed_paths[j], fn_in.tool_name)

\* nothing configured, although the home and temporary directories exist
C29_Witness ==
    /\ Applied("build_allowed_paths")
    /\ fn_in.workspace_config.allowed_paths = <<>>
    /\ fn_in.existing = {HomeDir, TempDir}
    /\ fn_in.tool_name = ToolSeg("t_conf")
    /\ fn_out.allowed_paths = <<OwnWorkspace(ToolSeg("t_conf"))>>

----------------------------------------------------------------------------
(* Claims about the order of the executor's checks, checked under Spec *)

\* the step of execute_script_structured an event belongs to
StepOf(e) ==
    CASE e \in {"unknown", "disabled"} -> 1
      [] e \in {"unconfirmed", "confirmed"} -> 2
      [] e \in {"rate_denied", "rate_ok", "queued", "acquired"} -> 3
      [] e \in {"security_failed", "security_ok"} -> 4
      [] e \in {"script_present", "script_missing", "script_denied", "script_stat_fails"} -> 5
      [] OTHER -> 6

\* the events with which a step fails, and the error kind of each
FailureKind(e) ==
    CASE e \in {"unknown", "disabled", "script_missing"} -> "validation"
      [] e = "unconfirmed" -> "confirmation_required"
      [] e = "rate_denied" -> "rate_limit"
      [] e = "security_failed" -> "security_validation"
      [] OTHER -> ""

\* the event with which the step before this one passed
PassedBefore(e) ==
    CASE e \in {"rate_denied", "rate_ok"} -> "confirmed"
      [] e \in {"security_failed", "security_ok"} -> "acquired"
      [] StepOf(e) = 5 -> "security_ok"
      [] e \in {"spawn", "spawn_failed"} -> "script_present"
      [] OTHER -> ""

\* the events of the finished call are in the order of the steps, every step
\* was reached through the one before, and a failing step is the last one
\* and gives the result its error kind
C30_Ordered ==
    (last # NoLast /\ last.called_executor) =>
        LET ev == last.events
        IN /\ ev # <<>>
           /\ StepOf(ev[1]) <= 2
           /\ \A i, j \in 1..Len(ev) : i < j => StepOf(ev[i]) <= StepOf(ev[j])
           /\ \A j \in 1..Len(ev) :
                 PassedBefore(ev[j]) # "" => \E i \in 1..(j - 1) : ev[i] = PassedBefore(ev[j])
           /\ \A i \in 1..Len(ev) :
                 FailureKind(ev[i]) # ""
                    => i = Len(ev) /\ last.result.error_type = FailureKind(ev[i])

\* a call that fails the lookup or the confirmation leaves the rate limiter
\* and the semaphore as they were; one that is refused by the rate limiter
\* records no timestamp and takes no slot
C30_NoLaterEffect ==
    (last = NoLast /\ last' # NoLast /\ last'.called_executor) =>
        LET e == last'.events[Len(last'.events)]
        IN /\ e \in {"unknown", "disabled", "unconfirmed"}
                => executions' = executions /\ sem' = sem
           /\ e = "rate_denied"
                => /\ sem' = sem
                   /\ \A n \in ToolNames : Len(executions'[n]) <= Len(executions[n])

\* C30: execute_script_structured checks lookup and enabled, confirmation,
\* rate limit and slot, argument security, the script file, and only then
\* spawns; it stops at the first failing step with that step's error kind,
\* and a failing call has none of the later steps' effects.
C30_ChecksInOrder == []C30_Ordered /\ [][C30_NoLaterEffect]_vars

\* a call that passed every check up to the script file, which is missing
C30_Witness ==
    /\ last.called_executor
    /\ last.events = <<"confirmed", "rate_ok", "acquired", "security_ok", "script_missing">>
    /\ last.result.error_type = "validation"

\* an unconfirmed call while the tool's queue holds a timestamp
C30_ConfirmationCase ==
    /\ last.called_executor
    /\ last.events = <<"unconfirmed">>
    /\ executions[last.name] # <<>>

----------------------------------------------------------------------------
(* Claims about waiting for a slot, checked under SpecLive *)

SomeCallWaits == \E c \in Calls : calls[c].pc = "waiting"

\* C31: every call suspended waiting for a slot is eventually admitted: it
\* cannot be that from some point on a call is always waiting and no waiting
\* call is ever resumed.
C31_WaitersAreAdmitted ==
    []<>(~SomeCallWaits) \/ []<><<\E c \in Calls : Resume(c)>>_vars

\* a call that had to wait has been admitted and has run its script
C31_Witness ==
    /\ Replied
    /\ Has(last.events, "queued") /\ Has(last.events, "acquired") /\ Has(last.events, "exited")

\* a call waits while no call holds a process that could give the slot back
C31_LeakedSlot ==
    /\ SomeCallWaits
    /\ sem.woken = {}
    /\ \A c \in Calls : calls[c].pc \notin HoldingPcs

----------------------------------------------------------------------------
(* Claims about a rate-limit rejection, checked under SpecRate *)

IsSuffix(a, b) == Len(a) <= Len(b) /\ SubSeq(b, Len(b) - Len(a) + 1, Len(b)) = a

\* the timestamps of a queue that lie in the window that ends at t
InWindow(q, t) == { q[i] : i \in 1..Len(q) } \cap (t - window_seconds)..t

Oldest(S) == CHOOSE x \in S : \A y \in S : x <= y

\* what one check of the tool leaves behind
CheckEffect(tool) ==
    LET r == rl_last'
        before == executions[tool]
        after == executions'[tool]
    IN /\ r.tool = tool /\ r.at = now
       /\ \A n \in ToolNames \ {tool} : executions'[n] = executions[n]
       /\ sem' = sem /\ calls' = calls
       /\ ~r.allowed =>
             /\ IsSuffix(after, before)
             /\ Count(after, now) = Count(before, now)
             /\ InWindow(before, now) # {}
             /\ r.wait = Oldest(InWindow(before, now)) + window_seconds - now
             /\ r.wait \in 0..window_seconds
       /\ Count(after, now) > Count(before, now) => r.allowed

\* C32: a rejected check appends no timestamp, takes no slot and reports the
\* wait until the oldest timestamp of the window leaves it, between 0 and 60
\* seconds; only an admitted check appends a timestamp.
C32_RejectionLeavesNoTrace ==
    [][\A tool \in RateTools : RateCheck(tool) => CheckEffect(tool)]_vars

\* a check refused one second before the oldest timestamp leaves the window
C32_Witness ==
    /\ rl_last.tool # "" /\ ~rl_last.allowed
    /\ rl_last.at = now /\ rl_last.wait = 1
    /\ Len(executions[rl_last.tool]) = MaxPerMinute

----------------------------------------------------------------------------
(* Claims about concurrent callers of the rate limiter, checked under SpecRate *)

\* how many admissions the queue holds for the window that ends at t
SeenInWindow(q, t) == Len(SelectSeq(q, LAMBDA x : x >= t - window_seconds))

\* no MaxPerMinute + 1 admissions of a tool lie within 60 seconds of each other
WindowHoldsAtMostN ==
    \A tool \in ToolNames :
        \A i, j \in 1..Len(executions[tool]) :
            (i <= j /\ executions[tool][j] - executions[tool][i] <= window_seconds)
                => j - i + 1 <= MaxPerMinute

\* a caller is admitted iff it finds fewer than N admissions in the window,
\* and its own admission is in the queue before any other caller looks
CountThenAppend(tool) ==
    rl_enabled =>
        /\ rl_last'.allowed <=> SeenInWindow(executions[tool], now) < MaxPerMinute
        /\ rl_last'.allowed =>
              /\ SeenInWindow(executions'[tool], now) = SeenInWindow(executions[tool], now) + 1
              /\ executions'[tool][Len(executions'[tool])] = now

\* C33: the count and the append of check_rate_limit are one step for every
\* caller: whoever is admitted is counted by the next caller, so at most N
\* admissions of a tool fall into any 60 seconds.
C33_CheckAndAppendAtomic ==
    [](rl_enabled => WindowHoldsAtMostN)
        /\ [][\A tool \in RateTools : RateCheck(tool) => CountThenAppend(tool)]_vars

\* callers at the same instant: N were admitted and the next one was refused
C33_Witness ==
    /\ rl_enabled /\ rl_last.tool # "" /\ ~rl_last.allowed /\ rl_last.at = now
    /\ Len(executions[rl_last.tool]) = MaxPerMinute
    /\ \A i \in 1..MaxPerMinute : executions[rl_last.tool][i] = now
    /\ now > 0

----------------------------------------------------------------------------
(* Claims about retrying after a rejection, checked under SpecRate *)

\* the check just made for this tool follows a rejection of the same tool
\* whose wait is over, with no check admitted and no reset in between
RetryAfterWait(tool) ==
    /\ rl_enabled
    /\ rl_last.tool = tool /\ ~rl_last.allowed
    /\ now >= rl_last.at + rl_last.wait

\* C34: after a rejection at time t with wait w, the next check of the same
\* tool at or after t + w is admitted, when no other call to the tool was
\* admitted in between.
C34_RetryAfterWaitIsAdmitted ==
    [][\A tool \in RateTools :
          (RateCheck(tool) /\ RetryAfterWait(tool)) => rl_last'.allowed]_vars

\* a tool was refused within a second of its first admission, and a retry
\* long after the wait was over has been admitted
C34_Witness ==
    /\ rl_enabled /\ rl_last.tool # "" /\ rl_last.allowed
    /\ rl_burst[rl_last.tool].n = MaxPerMinute + 1
    /\ rl_burst[rl_last.tool].allowed = MaxPerMinute
    /\ rl_last.at = now /\ now > window_seconds
    /\ executions[rl_last.tool] = <<now>>

----------------------------------------------------------------------------
(* Claims about readers of the registry, checked under SpecReg *)

\* every object the reader holds still has the fields the reader last saw
ReaderSeesNoWrite ==
    \A n \in RegistryNames :
        reader.refs[n] # 0 => objects[reader.refs[n]] = reader.seen[n]

\* what the reader does with an object or a dict it was given stays with it
ReaderChangesNothing ==
    \A n \in RegistryNames :
        (ReaderAssigns(n) \/ ReaderDeletes(n)) => RegistryView' = RegistryView

\* C35: what a reader got from get_script_config or get_all_script_configs
\* before a write has the same field values after it, and what the reader
\* does to it does not change the registry.
C35_ReadersAreIsolated == []ReaderSeesNoWrite /\ [][ReaderChangesNothing]_vars

\* a reader holds a copy from before set_script_config replaced an entry: it
\* still sees the old fields, the registry has the new ones
C35_Witness ==
    /\ reader.got = "get_all_script_configs"
    /\ reader.refs["t_a"] # 0 /\ reader.refs["t_a"] # tools_map["t_a"]
    /\ objects[reader.refs["t_a"]] = reader.seen["t_a"]
    /\ RegistryView["t_a"] # reader.seen["t_a"]

\* what the next check for a tool would return, from the limiter's state
NextCheck(ex, t, tool) ==
    LET r == check_rate_limit(ex[tool], t, rl_enabled, MaxPerMinute)
    IN <<r.allowed, r.wait>>

\* a check or a reset for one tool leaves every other tool's deque and the
\* outcome of its next check as they were
OtherToolsUntouched(tool) ==
    \A other \in ToolNames \ {tool} :
        /\ executions'[other] = executions[other]
        /\ NextCheck(executions', now', other) = NextCheck(executions, now, other)

\* C36: check_rate_limit and reset for one tool change neither another tool's
\* timestamp queue nor the outcome of its next check; reset with a name empties
\* that tool's queue only and reset without a name empties every queue.
C36_LimiterStateIsPerTool ==
    [][ /\ \A tool \in RateTools :
            /\ RateCheck(tool) => OtherToolsUntouched(tool)
            /\ RateReset(tool) => executions'[tool] = <<>> /\ OtherToolsUntouched(tool)
        /\ RateReset("") => \A tool \in ToolNames : executions'[tool] = <<>> ]_vars

\* t_ok was reset when it was at its limit; t_conf still is at its limit
C36_Witness ==
    /\ rl_enabled
    /\ rl_flag["t_ok"] /\ executions["t_ok"] = <<>>
    /\ ~rl_flag["t_conf"] /\ Len(executions["t_conf"]) = MaxPerMinute
    /\ rl_burst["t_conf"].n > MaxPerMinute

----------------------------------------------------------------------------
(* Claims about the command line of a validated call, checked under SpecFn *)

CommandLineBuilt == fn_in.fn = "shell_command_line" /\ fn_out # NotApplied /\ fn_out.spawned

\* the items of the call whose value is the sub-command token of the command line
SubcommandItems ==
    { i \in 1..Len(fn_in.arguments) :
        /\ fn_in.arguments[i].k \in {K_function, K_command}
        /\ Truthy(fn_in.arguments[i].v)
        /\ fn_out.args # <<>>
        /\ Head(fn_out.args) = Str(fn_in.arguments[i].v) }

\* the items of the call that give the command line its flags
FlagItems ==
    { i \in 1..Len(fn_in.arguments) : fn_in.arguments[i].k \notin ReservedKeys }

\* a value as validate_arguments_security checks the value of a string argument
ValueIsValid(v) ==
    v.t = "str" => sanitize_string_value(v.s, DefaultWorkspace.max_string_length, TRUE) = ""

\* C37: every token of the command line that comes from the caller's arguments
\* has passed validate_arguments_security before the spawn, the sub-command
\* token taken from 'function' or 'command' included.
C37_ArgvIsValidated ==
    CommandLineBuilt =>
        /\ \A i \in FlagItems :
               item_error(fn_in.arguments[i], DefaultWorkspace, ToolSeg("t_ok"), NoLinks) = NoError
        /\ \A i \in SubcommandItems : ValueIsValid(fn_in.arguments[i].v)

\* a command line with a sub-command and a flag, both from values the
\* validator accepts
C37_Witness ==
    /\ CommandLineBuilt
    /\ SubcommandItems # {} /\ FlagItems # {}
    /\ Len(fn_out.args) >= 2
    /\ \A i \in SubcommandItems : ValueIsValid(fn_in.arguments[i].v)

----------------------------------------------------------------------------
(* Claims about the names of discovered scripts, checked under SpecFn *)

Registered == fn_in.fn = "register_scripts" /\ fn_out # NotApplied

\* the registry has an entry for that candidate file
HasEntry(script) ==
    \E i \in 1..Len(fn_out.registry) : fn_out.registry[i].script_path = script.path

\* C38: distinct candidate script files get distinct names from
\* _generate_script_name, and after a full discovery the registry holds one
\* entry per candidate script, none replaced or shadowed by another file of
\* the same name.
C38_NamesAreUnique ==
    Registered =>
        /\ \A i, j \in 1..Len(fn_in.scripts) : fn_out.names[i] = fn_out.names[j] => i = j
        /\ Len(fn_out.registry) = Len(fn_in.scripts)
        /\ \A i \in 1..Len(fn_in.scripts) : HasEntry(fn_in.scripts[i])

\* two files in one directory with different stems: two names, two entries
C38_Witness ==
    /\ Registered
    /\ fn_out.names[1] # fn_out.names[2]
    /\ Len(fn_out.registry) = 2
    /\ HasEntry(fn_in.scripts[1]) /\ HasEntry(fn_in.scripts[2])
    /\ fn_in.scripts[1].script_type = fn_in.scripts[2].script_type
====
